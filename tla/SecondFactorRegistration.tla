---------------------- MODULE SecondFactorRegistration ---------------------
(***************************************************************************)
(* Registration, renaming and removal of second factors                    *)
(* (handlers/handler_register_totp.go, handler_register_webauthn.go,       *)
(* handler_webauthn_credentials.go), all behind the elevation middleware.  *)
(*                                                                         *)
(* A registration is begun in one request and finished in another; what is *)
(* pending in between is a field of the session document.                  *)
(***************************************************************************)
EXTENDS SessionElevation

CONSTANTS PendingLifespan,      \* ten minutes
          MaxCredentials,       \* bound: credentials an authenticator makes
          Stored,               \* bound: sessions stored before
          NoTarget

ASSUME PendingsAssumption ==
    /\ PendingLifespan \in Nat
    /\ Pendings = [user : Users, expires : 0 .. MaxNow + PendingLifespan]
ASSUME BoundsAssumption == Stored \in 0 .. MaxIds /\ MaxCredentials \in Nat

VARIABLES registered,   \* credentials made so far; each has its own key id
          target        \* row each request is about to write or delete

registrationVars == <<elevationVars, registered, target>>

InitRegistration ==
    /\ \E n \in 1 .. Stored, factors \in {{"pwd"}, {"pwd", "totp"}} :
         \E of \in [1 .. n -> Users] :
           InitFrom(n, [i \in 1 .. n |-> LoggedIn(of[i], factors)])
    /\ now = 0
    /\ codes = <<>>
    /\ ip = [r \in Requests |-> NoIP]
    /\ code = [r \in Requests |-> NoCode]
    /\ approved = [r \in Requests |-> NoUser]
    /\ totpConfig = [u \in Users |-> NoPending]
    /\ credentials = {}
    /\ registered = 0
    /\ target = [r \in Requests |-> NoTarget]

\* The handler reads the session of a user and goes on with s.
Handle(r, h, to, s) ==
    /\ ~IsAnonymous(GetSession(sid[r]))
    /\ Load(r, h, to, s)
    /\ UNCHANGED <<stable, op, step, elevation, devices, registered>>

current(r) == GetSession(sid[r])

Untargeted(r) == target' = [target EXCEPT ![r] = NoTarget]

----------------------------------------------------------------------------
(* Time-based one-time passwords.                                          *)

TOTPRegisterPUT(r) ==
    /\ Handle(r, "totpRegisterPUT", "save",
              [current(r) EXCEPT !.totp =
                 [user |-> current(r).user, expires |-> now + PendingLifespan]])
    /\ UNCHANGED target

\* The code is valid for the pending secret, at some time step.
TOTPRegisterPOST(r) ==
    /\ current(r).totp # NoPending
    /\ now <= current(r).totp.expires
    /\ ~IsAnonymous(current(r))
    /\ Load(r, "totpRegisterPOST", "enroll", current(r))
    /\ \E k \in Steps : step' = [step EXCEPT ![r] = k]
    /\ UNCHANGED <<stable, op, elevation, devices, registered, target>>

EnrollHistory(r) ==
    /\ pc[r] = "enroll"
    /\ LET row == <<sess[r].user, step[r]>>
       IN  /\ DisableReuseSecurityPolicy \/ row \notin totpHistory
           /\ totpHistory' = IF DisableReuseSecurityPolicy THEN totpHistory
                             ELSE totpHistory \cup {row}
    /\ Goto(r, "configure", sid[r], sess[r])
    /\ UNCHANGED <<store, last, issued, told, op, step, elevation, devices,
                   registered, target>>

\* One configuration for each user: a new one replaces the old.
SaveTOTPConfiguration(r) ==
    /\ pc[r] = "configure"
    /\ totpConfig' = [totpConfig EXCEPT ![sess[r].user] = sess[r].totp]
    /\ Goto(r, "save", sid[r], [sess[r] EXCEPT !.totp = NoPending])
    /\ UNCHANGED <<stable, op, step, elevation, credentials, registered, target>>

TOTPRegisterDELETE(r) ==
    /\ current(r).totp # NoPending
    /\ Handle(r, "totpRegisterDELETE", "save",
              [current(r) EXCEPT !.totp = NoPending])
    /\ UNCHANGED target

TOTPConfigurationDELETE(r) ==
    /\ ~IsAnonymous(current(r))
    /\ totpConfig[current(r).user] # NoPending
    /\ Handle(r, "totpDELETE", "delete", current(r))
    /\ UNCHANGED target

----------------------------------------------------------------------------
(* WebAuthn credentials.                                                   *)

NamesOf(u) == {c.name : c \in {d \in credentials : d.user = u}}

WebAuthnRegistrationPUT(r) ==
    /\ \E d \in Registrations \ NamesOf(current(r).user) :
         Handle(r, "registrationPUT", "save",
                [current(r) EXCEPT !.webauthn = d])
    /\ UNCHANGED target

\* The response is for the pending registration and is accepted, or it is not
\* and only the deferred save is left to do.
WebAuthnRegistrationPOST(r) ==
    /\ current(r).webauthn # "none"
    /\ \/ Handle(r, "registrationPOST", "save",
                 [current(r) EXCEPT !.webauthn = "none"])
       \/ /\ current(r).webauthn \in Registrations
          /\ Handle(r, "registrationPOST", "credential", current(r))
    /\ UNCHANGED target

\* webauthn_credentials has a unique index on (rpid, username, description).
Insertable(row) ==
    \A c \in credentials : c.user = row.user => c.name # row.name

\* The insert, which may fail, and the end of the ceremony.
SaveWebAuthnCredential(r) ==
    LET row == [kid |-> registered + 1, user |-> sess[r].user,
                name |-> sess[r].webauthn]
    IN  /\ pc[r] = "credential"
        /\ \/ /\ registered < MaxCredentials
              /\ Insertable(row)
              /\ credentials' = credentials \cup {row}
              /\ registered' = registered + 1
           \/ UNCHANGED <<credentials, registered>>
        /\ Goto(r, "save", sid[r], [sess[r] EXCEPT !.webauthn = "none"])
        /\ UNCHANGED <<stable, op, step, elevation, totpConfig, target>>

WebAuthnRegistrationDELETE(r) ==
    /\ current(r).webauthn # "none"
    /\ Handle(r, "registrationDELETE", "save",
              [current(r) EXCEPT !.webauthn = "none"])
    /\ UNCHANGED target

\* The name is free among the user's other credentials.
WebAuthnCredentialPUT(r) ==
    \E c \in credentials, d \in Registrations :
        /\ c.user = current(r).user
        /\ \A o \in credentials \ {c} : o.user = c.user => o.name # d
        /\ Handle(r, "credentialPUT", "rename", current(r))
        /\ target' = [target EXCEPT ![r] = [c EXCEPT !.name = d]]

\* UPDATE ... WHERE username = ? AND id = ?: no row if it is gone meanwhile,
\* and an error if the name has been taken.
UpdateWebAuthnCredentialDescription(r) ==
    LET old == {c \in credentials : c.kid = target[r].kid
                                    /\ c.user = sess[r].user}
    IN  /\ pc[r] = "rename"
        /\ \A c \in credentials \ old :
             c.user = sess[r].user => c.name # target[r].name
        /\ credentials' = (credentials \ old)
                            \cup (IF old = {} THEN {} ELSE {target[r]})
        /\ Respond(r, sid[r], store)
        /\ Forget(r) /\ Untargeted(r)
        /\ UNCHANGED <<last, totpHistory, now, codes, totpConfig, registered>>

WebAuthnCredentialDELETE(r) ==
    \E c \in credentials :
        /\ c.user = current(r).user
        /\ Handle(r, "credentialDELETE", "delete", current(r))
        /\ target' = [target EXCEPT ![r] = c]

DeleteRow(r) ==
    /\ pc[r] = "delete"
    /\ \/ /\ op[r] = "totpDELETE"
          /\ totpConfig' = [totpConfig EXCEPT ![sess[r].user] = NoPending]
          /\ UNCHANGED credentials
       \/ /\ op[r] = "credentialDELETE"
          /\ credentials' = {c \in credentials : c.kid # target[r].kid}
          /\ UNCHANGED totpConfig
    /\ Respond(r, sid[r], store)
    /\ Forget(r) /\ Untargeted(r)
    /\ UNCHANGED <<last, totpHistory, now, codes, registered>>

\* A step of the modules below; the request forgets its row when answered.
LowerStep(r) ==
    /\ ElevationStep(r)
    /\ target' = [target EXCEPT ![r] = IF pc'[r] = "idle" THEN NoTarget
                                       ELSE target[r]]
    /\ UNCHANGED registered

RegistrationStep(r) ==
    \/ LowerStep(r)
    \/ TOTPRegisterPUT(r) \/ TOTPRegisterPOST(r) \/ EnrollHistory(r)
    \/ SaveTOTPConfiguration(r) \/ TOTPRegisterDELETE(r)
    \/ TOTPConfigurationDELETE(r)
    \/ WebAuthnRegistrationPUT(r) \/ WebAuthnRegistrationPOST(r)
    \/ SaveWebAuthnCredential(r) \/ WebAuthnRegistrationDELETE(r)
    \/ WebAuthnCredentialPUT(r) \/ UpdateWebAuthnCredentialDescription(r)
    \/ WebAuthnCredentialDELETE(r) \/ DeleteRow(r)

NextRegistration ==
    \/ Tick /\ UNCHANGED <<registered, target>>
    \/ \E r \in Requests : RegistrationStep(r)

SpecRegistration == InitRegistration /\ [][NextRegistration]_registrationVars

----------------------------------------------------------------------------
\* Types of the variables this module adds.
TypeOKRegistration ==
    /\ registered \in 0 .. MaxCredentials
    /\ totpConfig \in [Users -> Pendings \cup {NoPending}]
    /\ credentials \subseteq [kid : 1 .. registered, user : Users,
                              name : Registrations]
    /\ target \in [Requests -> [kid : 1 .. registered, user : Users,
                                name : Registrations] \cup {NoTarget}]

\* Second factors are changed for their owner only, and only by a request the
\* elevation middleware let through for this user, whatever happened to the
\* session since.
OnlyApprovedChanges ==
    \A u \in Users :
        \/ totpConfig'[u] # totpConfig[u]
        \/ {c \in credentials' : c.user = u} # {c \in credentials : c.user = u}
        => \E r \in Requests : approved[r] = u

\* What no step of the settings pages does: change what was not approved, or
\* settle a code twice.
SettingsSafe == [][CodesSettleOnce /\ OnlyApprovedChanges]_registrationVars

\* The secret that is registered for a user was generated for this user: a
\* registration left pending is not finished by whoever logs in next.
SecretsAreOwn ==
    \A u \in Users : totpConfig[u] # NoPending => totpConfig[u].user = u

\* The names of a user's credentials stay distinct, although registrations and
\* renames check them before they write.
NamesDistinct ==
    \A c, d \in credentials : c.user = d.user /\ c.name = d.name => c = d

\* The second factors on record are their owners' and can be told apart.
RegistrationSound == TypeOKRegistration /\ SecretsAreOwn /\ NamesDistinct
=============================================================================
