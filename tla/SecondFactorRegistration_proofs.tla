------------------ MODULE SecondFactorRegistration_proofs -------------------
(***************************************************************************)
(* Proofs about elevations and second factors, continued: the handlers     *)
(* that change second factors keep the invariant RInv of                   *)
(* SessionElevation_proofs, and what follows from it.                      *)
(***************************************************************************)
EXTENDS SessionElevation_proofs

----------------------------------------------------------------------------
(* Steps of the handlers that change second factors.                       *)

\* A request behind RequireElevated that reads a session with a user reads the one of the
\* user it was let through for.
LEMMA ReadsApproved ==
    ASSUME RInv, NEW r \in Requests, pc[r] = "load", op[r] \in ElevatedHandlers,
           ~IsAnonymous(GetSession(sid[r]))
    PROVE  /\ approved[r] # NoUser /\ GetSession(sid[r]).user = approved[r]
           /\ sid[r] \in issued /\ told[sid[r]][1] = approved[r]
<1>0. /\ IInv /\ ApprovedStage(r) /\ sid[r] \in 0 .. last
      /\ GetSession(sid[r]) \in Sessions /\ Own(GetSession(sid[r]))
  BY Before
<1>1. approved[r] # NoUser /\ sid[r] \in issued /\ told[sid[r]][1] = approved[r]
  BY <1>0 DEF ApprovedStage
<1>2. Identity(GetSession(sid[r])) \in {told[sid[r]], Nobody}
  BY <1>0, <1>1, ReadsKnown
<1>3. GetSession(sid[r]).user \in Users
  BY <1>0, Anonymous
<1> QED
  BY <1>1, <1>2, <1>3, UsersAssumption DEF Identity, Nobody, NewDefaultUserSession

\* A handler reads the session and goes on to save it, or to change a row it found.
LEMMA HandlerLoads ==
    ASSUME RInv, NEW r \in Requests, NEW h \in ElevatedHandlers, NEW s \in Sessions,
           NEW to \in {"save", "credential", "rename", "delete"},
           Handle(r, h, to, s),
           Identity(s) = Identity(current(r)), Rightful(s, codes),
           to = "credential" => s.webauthn \in Registrations,
           target' \in [Requests -> Credentials \cup {NoTarget}],
           \A o \in Requests : o # r => target'[o] = target[o],
           Targeting(h, to) =>
             /\ target'[r] \in Credentials /\ target'[r].user = s.user
             /\ \A c \in credentials : c.kid = target'[r].kid => c.user = target'[r].user
    PROVE  RInv'
<1>0. /\ IInv /\ TypeOK /\ TypeOKElevation /\ TypeOKRegistration
  BY Before
<1>1. /\ ~IsAnonymous(GetSession(sid[r])) /\ Load(r, h, to, s)
      /\ UNCHANGED <<stable, op, step>> /\ UNCHANGED <<store, issued, told>>
      /\ UNCHANGED <<now, codes, ip, code, approved>> /\ UNCHANGED devices
      /\ UNCHANGED <<devices, registered>>
  BY DEF Handle, stable, elevation
<1>2. pc[r] = "load" /\ op[r] = h /\ Goto(r, to, sid[r], s)
  BY <1>1 DEF Load
<1>3. h \notin {"firstfactor", "passkeyPOST", "none"} \cup ElevationHandlers
  BY DEF ElevatedHandlers, ElevationHandlers
<1>4. IInv'
  BY <1>0, <1>1, <1>3, LoadsForUser DEF current
<1>5. CodesKept /\ RowsKept /\ KidsDistinct' /\ NamesDistinct' /\ SecretsAreOwn'
  BY <1>1, SameCodes, SameRows
<1>6. TypeOKElevation'
  BY <1>0, <1>1 DEF TypeOKElevation, devices
<1>7. TypeOKRegistration'
  BY <1>0, <1>1 DEF TypeOKRegistration, devices, Credentials
<1>8. /\ op' = [op EXCEPT ![r] = h] /\ pc'[r] = to /\ op'[r] = h
      /\ sid'[r] = sid[r] /\ sess'[r] = s
  BY <1>0, <1>1, <1>2 DEF TypeOK, Goto
<1>9. ApprovedStage(r)'
  <2>1. /\ approved'[r] # NoUser /\ s.user = approved'[r]
        /\ sid[r] \in issued' /\ told'[sid[r]][1] = approved'[r]
    BY <1>1, <1>2, ReadsApproved DEF Identity, current
  <2> QED
    BY <2>1, <1>8 DEF ApprovedStage, Changing
<1>10. CodeStage(r)'
  BY <1>3, <1>8 DEF CodeStage, ElevationHandlers
<1>11. TargetStage(r)'
  BY <1>1, <1>8 DEF TargetStage, Credentials, devices, Targeting
<1>12. Rightful(s, codes')
  BY <1>1
<1> QED
  BY Zenon, <1>1, <1>2, <1>4, <1>5, <1>6, <1>7, <1>8, <1>9, <1>10, <1>11, <1>12,
     MovesOn

\* A handler that goes on to save its session and needs no row.
LEMMA HandlerSaves ==
    ASSUME RInv, NEW r \in Requests, NEW h \in ElevatedHandlers, NEW s \in Sessions,
           Handle(r, h, "save", s), UNCHANGED target,
           Identity(s) = Identity(current(r)), Rightful(s, codes)
    PROVE  RInv'
<1>1. target' \in [Requests -> Credentials \cup {NoTarget}]
  BY DEF RInv, TypeOKRegistration, Credentials
<1>2. ~Targeting(h, "save")
  BY DEF Targeting
<1> QED
  BY <1>1, <1>2, HandlerLoads

\* A session with another pending secret.
LEMMA OtherPending ==
    ASSUME NEW s \in Sessions, NEW p \in Pendings \cup {NoPending}
    PROVE  LET t == [s EXCEPT !.totp = p]
           IN  /\ t \in Sessions /\ Identity(t) = Identity(s)
               /\ t.user = s.user /\ t.elevation = s.elevation /\ t.totp = p
BY DEF Sessions, Identity

\* A session with another ceremony.
LEMMA OtherCeremony ==
    ASSUME NEW s \in Sessions,
           NEW w \in {"none", "assertion", "passkey"} \cup Registrations
    PROVE  LET t == [s EXCEPT !.webauthn = w]
           IN  /\ t \in Sessions /\ Identity(t) = Identity(s)
               /\ t.user = s.user /\ t.elevation = s.elevation /\ t.totp = s.totp
BY DEF Sessions, Identity

\* A secret is made for the session's user.
LEMMA TOTPRegisterPUTInv ==
    ASSUME RInv, NEW r \in Requests, TOTPRegisterPUT(r)
    PROVE  RInv'
<1>0. /\ current(r) \in Sessions /\ Own(current(r)) /\ Rightful(current(r), codes)
      /\ TypeOKElevation
  BY Before DEF current
<1>1. PICK p : p = [user |-> current(r).user, expires |-> now + PendingLifespan]
  BY Zenon
<1>2. Handle(r, "totpRegisterPUT", "save", [current(r) EXCEPT !.totp = p])
  BY <1>1 DEF TOTPRegisterPUT
<1>3. UNCHANGED target
  BY DEF TOTPRegisterPUT
<1>4. current(r).user \in Users
  BY <1>0, <1>2, Anonymous DEF Handle, current
<1>5. p \in Pendings /\ p.user = current(r).user
  BY <1>0, <1>1, <1>4, PendingsAssumption, LifespanAssumption DEF TypeOKElevation
<1>6. PICK t : t = [current(r) EXCEPT !.totp = p]
  BY Zenon
<1>7. /\ t \in Sessions /\ Identity(t) = Identity(current(r))
      /\ t.user = current(r).user /\ t.elevation = current(r).elevation /\ t.totp = p
  BY <1>0, <1>5, <1>6, OtherPending
<1>8. Rightful(t, codes)
  BY <1>0, <1>5, <1>7 DEF Rightful
<1>9. "totpRegisterPUT" \in ElevatedHandlers
  BY DEF ElevatedHandlers
<1> QED
  BY <1>2, <1>3, <1>6, <1>7, <1>8, <1>9, HandlerSaves

\* The pending secret is dropped.
LEMMA TOTPRegisterDELETEInv ==
    ASSUME RInv, NEW r \in Requests, TOTPRegisterDELETE(r)
    PROVE  RInv'
<1>0. current(r) \in Sessions /\ Rightful(current(r), codes)
  BY Before DEF current
<1>1. PICK t : t = [current(r) EXCEPT !.totp = NoPending]
  BY Zenon
<1>2. Handle(r, "totpRegisterDELETE", "save", t) /\ UNCHANGED target
  BY <1>1 DEF TOTPRegisterDELETE
<1>3. /\ t \in Sessions /\ Identity(t) = Identity(current(r))
      /\ t.user = current(r).user /\ t.elevation = current(r).elevation
      /\ t.totp = NoPending
  BY <1>0, <1>1, OtherPending
<1>4. Rightful(t, codes)
  BY <1>0, <1>3 DEF Rightful
<1>5. "totpRegisterDELETE" \in ElevatedHandlers
  BY DEF ElevatedHandlers
<1> QED
  BY <1>2, <1>3, <1>4, <1>5, HandlerSaves

\* A change of the ceremony that is saved.
LEMMA CeremonySaved ==
    ASSUME RInv, NEW r \in Requests, NEW h \in ElevatedHandlers,
           NEW w \in {"none"} \cup Registrations,
           Handle(r, h, "save", [current(r) EXCEPT !.webauthn = w]), UNCHANGED target
    PROVE  RInv'
<1>0. current(r) \in Sessions /\ Rightful(current(r), codes)
  BY Before DEF current
<1>1. PICK t : t = [current(r) EXCEPT !.webauthn = w]
  BY Zenon
<1>2. /\ t \in Sessions /\ Identity(t) = Identity(current(r))
      /\ t.user = current(r).user /\ t.elevation = current(r).elevation
      /\ t.totp = current(r).totp
  BY <1>0, <1>1, OtherCeremony
<1>3. Rightful(t, codes)
  BY <1>0, <1>2, SameRightful
<1> QED
  BY <1>1, <1>2, <1>3, HandlerSaves

\* A registration is begun, with a name that is free.
LEMMA WebAuthnRegistrationPUTInv ==
    ASSUME RInv, NEW r \in Requests, WebAuthnRegistrationPUT(r)
    PROVE  RInv'
<1>1. PICK d \in Registrations :
        Handle(r, "registrationPUT", "save", [current(r) EXCEPT !.webauthn = d])
  BY DEF WebAuthnRegistrationPUT
<1>2. UNCHANGED target /\ "registrationPUT" \in ElevatedHandlers
  BY DEF WebAuthnRegistrationPUT, ElevatedHandlers
<1> QED
  BY <1>1, <1>2, CeremonySaved

\* A registration is dropped.
LEMMA WebAuthnRegistrationDELETEInv ==
    ASSUME RInv, NEW r \in Requests, WebAuthnRegistrationDELETE(r)
    PROVE  RInv'
<1>1. /\ Handle(r, "registrationDELETE", "save", [current(r) EXCEPT !.webauthn = "none"])
      /\ UNCHANGED target /\ "registrationDELETE" \in ElevatedHandlers
  BY DEF WebAuthnRegistrationDELETE, ElevatedHandlers
<1> QED
  BY <1>1, CeremonySaved

\* A registration is answered.
LEMMA WebAuthnRegistrationPOSTInv ==
    ASSUME RInv, NEW r \in Requests, WebAuthnRegistrationPOST(r)
    PROVE  RInv'
<1>1. UNCHANGED target /\ "registrationPOST" \in ElevatedHandlers
  BY DEF WebAuthnRegistrationPOST, ElevatedHandlers
<1>2. CASE Handle(r, "registrationPOST", "save", [current(r) EXCEPT !.webauthn = "none"])
  BY <1>1, <1>2, CeremonySaved
<1>3. CASE /\ current(r).webauthn \in Registrations
           /\ Handle(r, "registrationPOST", "credential", current(r))
  <2>1. current(r) \in Sessions /\ Rightful(current(r), codes)
    BY Before DEF current
  <2>2. target' \in [Requests -> Credentials \cup {NoTarget}]
    BY <1>1 DEF RInv, TypeOKRegistration, Credentials
  <2>3. ~Targeting("registrationPOST", "credential")
    BY DEF Targeting
  <2> QED
    BY <2>1, <2>2, <2>3, <1>1, <1>3, HandlerLoads
<1> QED
  BY <1>2, <1>3 DEF WebAuthnRegistrationPOST

\* A configuration is found and about to be deleted.
LEMMA TOTPConfigurationDELETEInv ==
    ASSUME RInv, NEW r \in Requests, TOTPConfigurationDELETE(r)
    PROVE  RInv'
<1>1. /\ Handle(r, "totpDELETE", "delete", current(r))
      /\ UNCHANGED target /\ "totpDELETE" \in ElevatedHandlers
  BY DEF TOTPConfigurationDELETE, ElevatedHandlers
<1>2. current(r) \in Sessions /\ Rightful(current(r), codes)
  BY Before DEF current
<1>3. target' \in [Requests -> Credentials \cup {NoTarget}]
  BY <1>1 DEF RInv, TypeOKRegistration, Credentials
<1>4. ~Targeting("totpDELETE", "delete")
  BY DEF Targeting
<1> QED
  BY <1>1, <1>2, <1>3, <1>4, HandlerLoads

\* A request has found a row of its user.
LEMMA HandlerTargets ==
    ASSUME RInv, NEW r \in Requests, NEW h \in ElevatedHandlers,
           NEW to \in {"rename", "delete"}, Handle(r, h, to, current(r)),
           NEW c \in credentials, c.user = current(r).user,
           NEW row \in Credentials, row.kid = c.kid, row.user = c.user,
           target' = [target EXCEPT ![r] = row]
    PROVE  RInv'
<1>1. current(r) \in Sessions /\ Rightful(current(r), codes)
  BY Before DEF current
<1>2. /\ target' \in [Requests -> Credentials \cup {NoTarget}] /\ target'[r] = row
      /\ \A o \in Requests : o # r => target'[o] = target[o]
  BY DEF RInv, TypeOKRegistration, Credentials
<1>3. \A d \in credentials : d.kid = row.kid => d.user = row.user
  BY DEF RInv, KidsDistinct
<1> QED
  BY <1>1, <1>2, <1>3, HandlerLoads

\* A credential is found and about to be renamed.
LEMMA WebAuthnCredentialPUTInv ==
    ASSUME RInv, NEW r \in Requests, WebAuthnCredentialPUT(r)
    PROVE  RInv'
<1>1. PICK c \in credentials, d \in Registrations :
        /\ c.user = current(r).user
        /\ Handle(r, "credentialPUT", "rename", current(r))
        /\ target' = [target EXCEPT ![r] = [c EXCEPT !.name = d]]
  BY Zenon DEF WebAuthnCredentialPUT
<1>2. PICK row : row = [c EXCEPT !.name = d]
  BY Zenon
<1>3. row \in Credentials /\ row.kid = c.kid /\ row.user = c.user
  BY <1>2 DEF RInv, TypeOKRegistration, Credentials
<1>4. "credentialPUT" \in ElevatedHandlers
  BY DEF ElevatedHandlers
<1> QED
  BY Zenon, <1>1, <1>2, <1>3, <1>4, HandlerTargets

\* A credential is found and about to be deleted.
LEMMA WebAuthnCredentialDELETEInv ==
    ASSUME RInv, NEW r \in Requests, WebAuthnCredentialDELETE(r)
    PROVE  RInv'
<1>1. PICK c \in credentials :
        /\ c.user = current(r).user
        /\ Handle(r, "credentialDELETE", "delete", current(r))
        /\ target' = [target EXCEPT ![r] = c]
  BY Zenon DEF WebAuthnCredentialDELETE
<1>2. c \in Credentials
  BY DEF RInv, TypeOKRegistration, Credentials
<1>3. "credentialDELETE" \in ElevatedHandlers
  BY DEF ElevatedHandlers
<1> QED
  BY Zenon, <1>1, <1>2, <1>3, HandlerTargets

\* The code for a new secret is accepted.
LEMMA TOTPRegisterPOSTInv ==
    ASSUME RInv, NEW r \in Requests, TOTPRegisterPOST(r)
    PROVE  RInv'
<1> DEFINE s == GetSession(sid[r])
<1>0. /\ IInv /\ TypeOK /\ TypeOKElevation /\ TypeOKRegistration
      /\ s \in Sessions /\ Own(s) /\ Rightful(s, codes)
  BY Before
<1>1. /\ ~IsAnonymous(s) /\ Load(r, "totpRegisterPOST", "enroll", s)
      /\ UNCHANGED <<stable, op>> /\ UNCHANGED <<store, issued, told>>
      /\ UNCHANGED <<now, codes, ip, code, approved>> /\ UNCHANGED devices
      /\ UNCHANGED <<devices, registered>> /\ UNCHANGED target
  BY DEF TOTPRegisterPOST, current, stable, elevation
<1>2. PICK k \in Steps : step' = [step EXCEPT ![r] = k]
  BY Zenon DEF TOTPRegisterPOST
<1>3. s.user \in Users
  BY <1>0, <1>1, Anonymous
<1>4. IInv'
  <2>1. Fit("totpRegisterPOST", "enroll", s, k)
    BY <1>0, <1>3 DEF Fit
  <2>2. "enroll" \in PCs
    BY DEF PCs
  <2> QED
    BY Zenon, <2>1, <2>2, <1>0, <1>1, <1>2, Loads
<1>5. /\ pc[r] = "load" /\ op[r] = "totpRegisterPOST" /\ Goto(r, "enroll", sid[r], s)
      /\ "totpRegisterPOST" \in ElevatedHandlers
      /\ "totpRegisterPOST" \notin ElevationHandlers
  BY <1>1 DEF Load, ElevatedHandlers, ElevationHandlers
<1>6. /\ op' = [op EXCEPT ![r] = op[r]] /\ pc'[r] = "enroll" /\ op'[r] = op[r]
      /\ sid'[r] = sid[r] /\ sess'[r] = s
  BY <1>0, <1>1, <1>5 DEF TypeOK, Goto
<1>7. CodesKept /\ RowsKept /\ KidsDistinct' /\ NamesDistinct' /\ SecretsAreOwn'
  BY <1>1, SameCodes, SameRows
<1>8. TypeOKElevation' /\ TypeOKRegistration'
  BY <1>0, <1>1 DEF TypeOKElevation, TypeOKRegistration, devices
<1>9. ApprovedStage(r)'
  <2>1. /\ approved'[r] # NoUser /\ s.user = approved'[r]
        /\ sid[r] \in issued' /\ told'[sid[r]][1] = approved'[r]
    BY <1>1, <1>5, ReadsApproved
  <2> QED
    BY <2>1, <1>5, <1>6 DEF ApprovedStage, Changing
<1>10. CodeStage(r)' /\ TargetStage(r)'
  BY <1>5, <1>6 DEF CodeStage, TargetStage, Targeting, ElevationHandlers
<1>11. Rightful(s, codes')
  BY <1>0, <1>1
<1> HIDE DEF s
<1> QED
  BY Zenon, <1>1, <1>4, <1>5, <1>6, <1>7, <1>8, <1>9, <1>10, <1>11, MovesOn

\* A request at work on a row goes on with its copy.
LEMMA WorkGoesOn ==
    ASSUME RInv, NEW r \in Requests, pc[r] \in Changing, NEW to \in {"save", "configure"},
           NEW t \in Sessions, Identity(t) = Identity(sess[r]), Rightful(t, codes),
           Goto(r, to, sid[r], t), UNCHANGED <<store, last, issued, told, op, step>>,
           totpHistory' \subseteq Users \X Steps,
           UNCHANGED <<now, codes, ip, code, approved>>, UNCHANGED target,
           TypeOKElevation', TypeOKRegistration',
           RowsKept, KidsDistinct', NamesDistinct', SecretsAreOwn'
    PROVE  RInv'
<1>0. /\ IInv /\ TypeOK /\ ApprovedStage(r) /\ sess[r] \in Sessions /\ Own(sess[r])
  BY Before
<1>1. /\ op[r] \in ElevatedHandlers /\ approved[r] # NoUser /\ sess[r].user = approved[r]
      /\ sid[r] \in issued /\ told[sid[r]][1] = approved[r]
  BY <1>0 DEF ApprovedStage, Changing
<1>2. op[r] \notin {"firstfactor", "passkeyPOST", "none"} \cup ElevationHandlers
  BY <1>1 DEF ElevatedHandlers, ElevationHandlers
<1>3. sess[r].user \in Users
  BY <1>0, <1>2 DEF IInv, CopiesFit, Fit, ForUser, Working, Changing
<1>4. t.user = sess[r].user /\ Own(t)
  BY <1>0 DEF Identity, Own
<1>5. IInv'
  BY <1>0, <1>2, <1>3, <1>4, CopyKnown, CopyGoesOn
<1>6. /\ op' = [op EXCEPT ![r] = op[r]] /\ pc'[r] = to /\ op'[r] = op[r]
      /\ sid'[r] = sid[r] /\ sess'[r] = t
  BY <1>0 DEF TypeOK, Goto
<1>7. ApprovedStage(r)'
  BY <1>1, <1>2, <1>4, <1>6 DEF ApprovedStage, Changing
<1>8. CodeStage(r)' /\ TargetStage(r)'
  BY <1>2, <1>6 DEF CodeStage, TargetStage, Targeting, ElevationHandlers
<1>9. CodesKept /\ UNCHANGED <<store, issued, told>>
  BY SameCodes
<1> QED
  BY Zenon, <1>5, <1>6, <1>7, <1>8, <1>9, MovesOn

\* The user of a request at work on a row.
LEMMA WorksFor ==
    ASSUME RInv, NEW r \in Requests, pc[r] \in Changing
    PROVE  /\ sess[r].user \in Users /\ approved[r] = sess[r].user
           /\ op[r] \in ElevatedHandlers
<1>1. /\ IInv /\ ApprovedStage(r)
  BY Before
<1>2. op[r] \in ElevatedHandlers /\ approved[r] = sess[r].user
  BY <1>1 DEF ApprovedStage
<1>3. op[r] # "passkeyPOST"
  BY <1>2 DEF ElevatedHandlers
<1> QED
  BY <1>1, <1>2, <1>3 DEF IInv, CopiesFit, Fit, ForUser, Working, Changing

\* The code for a new secret is recorded.
LEMMA EnrollHistoryInv ==
    ASSUME RInv, NEW r \in Requests, EnrollHistory(r)
    PROVE  RInv'
<1>0. /\ IInv /\ TypeOK /\ TypeOKElevation /\ TypeOKRegistration
      /\ sess[r] \in Sessions /\ Rightful(sess[r], codes)
  BY Zenon, Before
<1>1. /\ pc[r] = "enroll" /\ pc[r] \in Changing /\ Goto(r, "configure", sid[r], sess[r])
      /\ UNCHANGED <<store, last, issued, told, op, step>>
      /\ UNCHANGED <<now, codes, ip, code, approved>> /\ UNCHANGED target
      /\ UNCHANGED <<devices, registered>>
  BY DEF EnrollHistory, elevation, Changing
<1>2. totpHistory' \subseteq Users \X Steps
  <2>1. sess[r].user \in Users /\ step[r] \in Steps
    BY <1>0, <1>1, WorksFor DEF IInv, CopiesFit, Fit
  <2>2. <<sess[r].user, step[r]>> \in Users \X Steps
    BY <2>1
  <2> QED
    BY <2>2, <1>0 DEF EnrollHistory, TypeOK
<1>3. RowsKept /\ KidsDistinct' /\ NamesDistinct' /\ SecretsAreOwn'
  BY Zenon, <1>1, SameRows
<1>4. TypeOKElevation' /\ TypeOKRegistration'
  BY Zenon, <1>0, <1>1 DEF TypeOKElevation, TypeOKRegistration, devices
<1> QED
  BY Zenon, <1>0, <1>1, <1>2, <1>3, <1>4, WorkGoesOn

\* The pending secret becomes the user's.
LEMMA SaveTOTPConfigurationInv ==
    ASSUME RInv, NEW r \in Requests, SaveTOTPConfiguration(r)
    PROVE  RInv'
<1>0. /\ IInv /\ TypeOK /\ TypeOKElevation /\ TypeOKRegistration
      /\ sess[r] \in Sessions /\ Rightful(sess[r], codes)
  BY Before
<1>1. PICK t : t = [sess[r] EXCEPT !.totp = NoPending]
  BY Zenon
<1>2. /\ pc[r] = "configure" /\ pc[r] \in Changing /\ Goto(r, "save", sid[r], t)
      /\ totpConfig' = [totpConfig EXCEPT ![sess[r].user] = sess[r].totp]
      /\ UNCHANGED <<store, last, issued, told, op, step>> /\ totpHistory' = totpHistory
      /\ UNCHANGED <<now, codes, ip, code, approved>> /\ UNCHANGED target
      /\ credentials' = credentials /\ registered' = registered
  BY <1>1 DEF SaveTOTPConfiguration, elevation, stable, Changing
<1>3. /\ t \in Sessions /\ Identity(t) = Identity(sess[r])
      /\ t.user = sess[r].user /\ t.elevation = sess[r].elevation /\ t.totp = NoPending
  BY <1>0, <1>1, OtherPending
<1>4. Rightful(t, codes)
  BY <1>0, <1>3 DEF Rightful
<1>5. sess[r].user \in Users /\ sess[r].totp \in Pendings \cup {NoPending}
  BY Zenon, <1>0, <1>2, WorksFor DEF Sessions
<1>6. totpConfig' \in [Users -> Pendings \cup {NoPending}]
  BY <1>0, <1>2, <1>5 DEF TypeOKElevation
<1>7. TypeOKElevation' /\ TypeOKRegistration'
  BY <1>0, <1>2, <1>6 DEF TypeOKElevation, TypeOKRegistration
<1>8. SecretsAreOwn'
  <2> SUFFICES ASSUME NEW u \in Users, totpConfig'[u] # NoPending
               PROVE  totpConfig'[u].user = u
    BY DEF SecretsAreOwn
  <2>1. CASE u = sess[r].user
    BY <2>1, <1>0, <1>2 DEF TypeOKElevation, Rightful
  <2>2. CASE u # sess[r].user
    BY <2>2, <1>0, <1>2 DEF TypeOKElevation, RInv, SecretsAreOwn
  <2> QED
    BY <2>1, <2>2
<1>9. RowsKept /\ KidsDistinct' /\ NamesDistinct'
  BY <1>0, <1>2 DEF RInv, RowsKept, KidsDistinct, NamesDistinct, TypeOKRegistration
<1>10. totpHistory' \subseteq Users \X Steps
  BY <1>0, <1>2 DEF TypeOK
<1> QED
  BY <1>2, <1>3, <1>4, <1>7, <1>8, <1>9, <1>10, WorkGoesOn

\* A new credential is inserted, or cannot be.
LEMMA SaveWebAuthnCredentialInv ==
    ASSUME RInv, NEW r \in Requests, SaveWebAuthnCredential(r)
    PROVE  RInv'
<1>0. /\ IInv /\ TypeOK /\ TypeOKElevation /\ TypeOKRegistration /\ ApprovedStage(r)
      /\ sess[r] \in Sessions /\ Rightful(sess[r], codes)
  BY Before
<1>1. PICK t : t = [sess[r] EXCEPT !.webauthn = "none"]
  BY Zenon
<1>2. /\ pc[r] = "credential" /\ pc[r] \in Changing /\ Goto(r, "save", sid[r], t)
      /\ UNCHANGED <<store, last, issued, told, op, step>> /\ totpHistory' = totpHistory
      /\ UNCHANGED <<now, codes, ip, code, approved>> /\ UNCHANGED target
      /\ totpConfig' = totpConfig
  BY <1>1 DEF SaveWebAuthnCredential, elevation, stable, Changing
<1>3. /\ t \in Sessions /\ Identity(t) = Identity(sess[r])
      /\ t.user = sess[r].user /\ t.elevation = sess[r].elevation /\ t.totp = sess[r].totp
  BY <1>0, <1>1, OtherCeremony
<1>4. Rightful(t, codes)
  BY <1>0, <1>3, SameRightful
<1>5. totpHistory' \subseteq Users \X Steps
  BY <1>0, <1>2 DEF TypeOK
<1>6. sess[r].user \in Users /\ sess[r].webauthn \in Registrations
  BY <1>0, <1>2, WorksFor DEF ApprovedStage
<1>7. /\ TypeOKElevation' /\ TypeOKRegistration'
      /\ RowsKept /\ KidsDistinct' /\ NamesDistinct' /\ SecretsAreOwn'
  <2>1. CASE UNCHANGED <<credentials, registered>>
    <3>1. UNCHANGED <<devices, registered>>
      BY <2>1, <1>2 DEF devices
    <3>2. TypeOKElevation' /\ TypeOKRegistration'
      BY Zenon, <2>1, <1>0, <1>2 DEF TypeOKElevation, TypeOKRegistration
    <3> QED
      BY <3>1, <3>2, SameRows
  <2>2. ASSUME NEW row, row = [kid |-> registered + 1, user |-> sess[r].user,
                               name |-> sess[r].webauthn],
               registered < MaxCredentials, Insertable(row),
               credentials' = credentials \cup {row}, registered' = registered + 1
        PROVE  /\ TypeOKElevation' /\ TypeOKRegistration'
               /\ RowsKept /\ KidsDistinct' /\ NamesDistinct' /\ SecretsAreOwn'
    <3>1. registered \in 0 .. MaxCredentials /\ registered \in Nat
      BY <1>0 DEF TypeOKRegistration
    <3>2. registered' \in 0 .. MaxCredentials
      BY <2>2, <3>1, BoundsAssumption
    <3>3. \A c \in credentials : c \in [kid : 1 .. registered, user : Users,
                                        name : Registrations]
      BY <1>0 DEF TypeOKRegistration
    <3>4. row \in [kid : 1 .. registered', user : Users, name : Registrations]
      BY <2>2, <3>1, <1>6
    <3>5. credentials' \subseteq [kid : 1 .. registered', user : Users,
                                  name : Registrations]
      BY <2>2, <3>1, <3>3, <3>4
    <3>6. target' \in [Requests -> [kid : 1 .. registered', user : Users,
                                    name : Registrations] \cup {NoTarget}]
      <4> SUFFICES ASSUME NEW o \in Requests, target[o] # NoTarget
                   PROVE  target[o] \in [kid : 1 .. registered', user : Users,
                                         name : Registrations]
        BY Zenon, <1>0, <1>2 DEF TypeOKRegistration
      <4> QED
        BY <2>2, <3>1, <1>0 DEF TypeOKRegistration
    <3>7. TypeOKRegistration'
      BY <3>2, <3>5, <3>6, <1>0, <1>2 DEF TypeOKRegistration
    <3>8. TypeOKElevation'
      <4>1. credentials' \subseteq [kid : Nat, user : Users, name : Registrations]
        BY <3>5
      <4> QED
        BY Zenon, <4>1, <1>0, <1>2 DEF TypeOKElevation
    <3>9. RowsKept
      BY <2>2, <3>1 DEF RowsKept
    <3>10. KidsDistinct'
      BY <2>2, <3>1, <3>3 DEF KidsDistinct, RInv
    <3>11. NamesDistinct'
      BY <2>2 DEF NamesDistinct, Insertable, RInv
    <3>12. SecretsAreOwn'
      BY <1>2 DEF SecretsAreOwn, RInv
    <3> QED
      BY <3>7, <3>8, <3>9, <3>10, <3>11, <3>12
  <2> QED
    BY <2>1, <2>2 DEF SaveWebAuthnCredential
<1> QED
  BY <1>2, <1>3, <1>4, <1>5, <1>7, WorkGoesOn

\* A credential is renamed, unless it is gone or the name is taken.
LEMMA UpdateWebAuthnCredentialDescriptionInv ==
    ASSUME RInv, NEW r \in Requests, UpdateWebAuthnCredentialDescription(r)
    PROVE  RInv'
<1> DEFINE row == target[r]
           old == {c \in credentials : c.kid = row.kid /\ c.user = sess[r].user}
<1>0. /\ IInv /\ TypeOK /\ TypeOKElevation /\ TypeOKRegistration /\ TargetStage(r)
      /\ sid[r] \in 0 .. last
  BY Before
<1>1. /\ pc[r] = "rename" /\ pc[r] \in Changing
      /\ \A c \in credentials \ old : c.user = sess[r].user => c.name # row.name
      /\ credentials' = (credentials \ old) \cup (IF old = {} THEN {} ELSE {row})
      /\ Respond(r, sid[r], store) /\ Forget(r) /\ UNCHANGED <<last, totpHistory>>
      /\ target' = [target EXCEPT ![r] = NoTarget]
      /\ now' = now /\ codes' = codes /\ totpConfig' = totpConfig
      /\ registered' = registered
  BY Zenon DEF UpdateWebAuthnCredentialDescription, Untargeted, Changing
<1>2. /\ row \in Credentials /\ row.user = sess[r].user
      /\ \A c \in credentials : c.kid = row.kid => c.user = row.user
  BY Zenon, <1>0, <1>1 DEF TargetStage, Targeting
<1>3. \A c \in credentials \ old : c.kid # row.kid
  BY <1>2
<1>4. \A c \in old : c.kid = row.kid /\ c.user = row.user /\ c \in credentials
  BY <1>2
<1> HIDE DEF row, old
<1>5. \A c \in credentials' : (c \in credentials /\ c \notin old) \/ (c = row /\ old # {})
  BY <1>1
<1>6. \A c \in credentials' : c \in Credentials
  BY <1>0, <1>2, <1>5 DEF TypeOKRegistration, Credentials
<1>7. RowsKept
  BY <1>0, <1>1, <1>4, <1>5 DEF RowsKept, TypeOKRegistration
<1>8. KidsDistinct'
  BY <1>3, <1>5 DEF KidsDistinct, RInv
<1>9. NamesDistinct'
  BY ZenonT(30), <1>1, <1>2, <1>5 DEF NamesDistinct, RInv
<1>10. SecretsAreOwn'
  BY Zenon, <1>1 DEF SecretsAreOwn, RInv
<1>11. TypeOKRegistration' /\ \A o \in Requests : o # r => target'[o] = target[o]
  BY <1>0, <1>1, <1>6 DEF TypeOKRegistration, Credentials
<1>12. TypeOKElevation'
  <2>1. /\ ip' \in [Requests -> IPs \cup {NoIP}]
        /\ code' \in [Requests -> 0 .. Len(codes')]
        /\ approved' \in [Requests -> Users \cup {NoUser}]
    <3>1. Len(codes) \in Nat
      BY Zenon, <1>0, ElevationNumbers
    <3>2. codes' = codes
      BY Zenon, <1>1
    <3>3. Len(codes') \in Nat /\ Len(codes) <= Len(codes')
      BY <3>1, <3>2
    <3> QED
      BY Zenon, <3>3, <1>0, <1>1, Forgets
  <2>2. credentials' \subseteq [kid : Nat, user : Users, name : Registrations]
    BY <1>0, <1>6 DEF Credentials, TypeOKRegistration
  <2> QED
    BY <2>1, <2>2, <1>0, <1>1 DEF TypeOKElevation
<1>13. CodesKept /\ Exclusive(r, sid[r])
  BY <1>0, <1>1, SameCodes, OwnIdentifier
<1> QED
  BY <1>0, <1>1, <1>7, <1>8, <1>9, <1>10, <1>11, <1>12, <1>13, IsAnswered

\* A configuration or a credential is deleted.
LEMMA DeleteRowInv ==
    ASSUME RInv, NEW r \in Requests, DeleteRow(r)
    PROVE  RInv'
<1>0. /\ IInv /\ TypeOK /\ TypeOKElevation /\ TypeOKRegistration
      /\ sid[r] \in 0 .. last
  BY Zenon, Before
<1>1. /\ pc[r] = "delete" /\ pc[r] \in Changing
      /\ Respond(r, sid[r], store) /\ Forget(r) /\ UNCHANGED <<last, totpHistory>>
      /\ target' = [target EXCEPT ![r] = NoTarget]
      /\ now' = now /\ codes' = codes /\ registered' = registered
      /\ \/ totpConfig' = totpConfig
         \/ totpConfig' = [totpConfig EXCEPT ![sess[r].user] = NoPending]
      /\ credentials' \subseteq credentials
  BY DEF DeleteRow, Untargeted, Changing
<1>2. RowsKept
  <2>1. registered' \in Nat /\ registered <= registered'
    <3>1. registered' = registered
      BY Zenon, <1>1
    <3>2. registered \in Nat
      BY <1>0 DEF TypeOKRegistration
    <3> QED
      BY <3>1, <3>2
  <2>2. \A c \in credentials' : \E d \in credentials : d.kid = c.kid /\ d.user = c.user
    BY Zenon, <1>1
  <2> QED
    BY Zenon, <2>1, <2>2 DEF RowsKept
<1>3. KidsDistinct' /\ NamesDistinct'
  BY <1>1 DEF KidsDistinct, NamesDistinct, RInv
<1>4. totpConfig' \in [Users -> Pendings \cup {NoPending}] /\ SecretsAreOwn'
  BY Zenon, <1>0, <1>1 DEF SecretsAreOwn, RInv, TypeOKElevation
<1>5. TypeOKRegistration' /\ \A o \in Requests : o # r => target'[o] = target[o]
  BY <1>0, <1>1, <1>4 DEF TypeOKRegistration
<1>6. TypeOKElevation'
  <2>1. /\ ip' \in [Requests -> IPs \cup {NoIP}]
        /\ code' \in [Requests -> 0 .. Len(codes')]
        /\ approved' \in [Requests -> Users \cup {NoUser}]
    <3>1. Len(codes) \in Nat
      BY Zenon, <1>0, ElevationNumbers
    <3>2. codes' = codes
      BY Zenon, <1>1
    <3>3. Len(codes') \in Nat /\ Len(codes) <= Len(codes')
      BY <3>1, <3>2
    <3> QED
      BY Zenon, <3>3, <1>0, <1>1, Forgets
  <2> QED
    BY <2>1, <1>0, <1>1, <1>4 DEF TypeOKElevation
<1>7. CodesKept /\ Exclusive(r, sid[r])
  BY <1>0, <1>1, SameCodes, OwnIdentifier
<1> QED
  BY Zenon, <1>0, <1>1, <1>2, <1>3, <1>4, <1>5, <1>6, <1>7, IsAnswered

----------------------------------------------------------------------------
(* The invariant.                                                          *)

\* The sessions the system starts with.
LEMMA InitRInv == InitRegistration => RInv
<1> SUFFICES ASSUME InitRegistration PROVE RInv
  OBVIOUS
<1>1. PICK n \in 1 .. Stored, factors \in {{"pwd"}, {"pwd", "totp"}} :
        \E of \in [1 .. n -> Users] :
          InitFrom(n, [i \in 1 .. n |-> LoggedIn(of[i], factors)])
  BY Zenon DEF InitRegistration
<1>2. PICK of \in [1 .. n -> Users] :
        InitFrom(n, [i \in 1 .. n |-> LoggedIn(of[i], factors)])
  BY Zenon, <1>1
<1>3. n \in 0 .. MaxIds
  BY BoundsAssumption, MaxIdsAssumption
<1>4. ASSUME NEW u \in Users
      PROVE  /\ LoggedIn(u, factors) \in Sessions /\ Own(LoggedIn(u, factors))
             /\ Rightful(LoggedIn(u, factors), codes)
  <2>1. PICK a : a = {u} \X factors
    BY Zenon
  <2>2. a \in SUBSET (Users \X Factors) /\ <<u, "pwd">> \in a /\ \A p \in a : p[1] = u
    BY <2>1 DEF Factors
  <2>3. PICK N \in Sessions :
          N = NewDefaultUserSession /\ N.totp = NoPending /\ N.elevation = NoElevation
    BY DefaultSession DEF NewDefaultUserSession
  <2>4. PICK t : t = [N EXCEPT !.user = u, !.amr = a]
    BY Zenon
  <2>5. /\ t \in Sessions /\ t.user = u /\ t.amr = a
        /\ t.totp = NoPending /\ t.elevation = NoElevation
    BY Zenon, <2>2, <2>3, <2>4 DEF Sessions
  <2>6. t = LoggedIn(u, factors)
    BY <2>1, <2>3, <2>4 DEF LoggedIn
  <2>7. Own(t) /\ Rightful(t, codes)
    BY <2>2, <2>5 DEF Own, Rightful
  <2> QED
    BY <2>5, <2>6, <2>7
<1>5. PICK stored : stored = [i \in 1 .. n |-> LoggedIn(of[i], factors)]
  BY Zenon
<1>6. /\ stored \in [1 .. n -> Sessions]
      /\ \A i \in 1 .. n : Own(stored[i]) /\ Rightful(stored[i], codes)
  BY <1>4, <1>5
<1>7. IInv
  BY <1>2, <1>3, <1>5, <1>6, InitFromInv
<1>8. TypeOKElevation /\ TypeOKRegistration
  BY LifespanAssumption, BoundsAssumption
     DEF InitRegistration, TypeOKElevation, TypeOKRegistration, NoCode
<1>9. StoredRightful
  <2>1. store = [i \in Ids |-> IF i <= n THEN stored[i] ELSE NoSession]
    BY <1>2, <1>5 DEF InitFrom
  <2> QED
    BY <2>1, <1>1, <1>6 DEF StoredRightful, Ids
<1>10. CopiesRightful
  <2>1. sess = [r \in Requests |-> NewDefaultUserSession]
    BY <1>2 DEF InitFrom
  <2> QED
    BY <2>1, DefaultRightful DEF CopiesRightful
<1>11. Stages
  <2>1. /\ pc = [r \in Requests |-> "idle"] /\ op = [r \in Requests |-> "none"]
        /\ approved = [r \in Requests |-> NoUser]
    BY <1>2 DEF InitFrom, InitRegistration
  <2> QED
    BY <2>1 DEF Stages, ApprovedStage, CodeStage, TargetStage, Targeting, Changing,
                ElevatedHandlers, ElevationHandlers
<1>12. KidsDistinct /\ NamesDistinct /\ SecretsAreOwn
  BY DEF InitRegistration, KidsDistinct, NamesDistinct, SecretsAreOwn
<1> QED
  BY <1>7, <1>8, <1>9, <1>10, <1>11, <1>12 DEF RInv

\* A step in which no request does anything, and the clock may move.
LEMMA TickRInv ==
    ASSUME RInv, now' \in 0 .. MaxNow,
           UNCHANGED <<vars, codes, ip, code, approved, devices, registered, target>>
    PROVE  RInv'
<1>0. /\ UNCHANGED vars /\ UNCHANGED <<store, issued, told, pc, op, sid, sess>>
      /\ UNCHANGED <<codes, ip, code, approved>>
      /\ UNCHANGED <<totpConfig, credentials, registered, target>>
  BY DEF vars, request, devices
<1>1. IInv'
  BY <1>0, StutterInv DEF RInv
<1>2. TypeOKElevation' /\ TypeOKRegistration'
  BY <1>0 DEF RInv, TypeOKElevation, TypeOKRegistration
<1>3. StoredRightful' /\ CopiesRightful'
  BY <1>0 DEF RInv, StoredRightful, CopiesRightful
<1>4. Stages'
  <2> SUFFICES ASSUME NEW r \in Requests
               PROVE  (ApprovedStage(r) /\ CodeStage(r) /\ TargetStage(r))'
    BY DEF Stages
  <2>1. ApprovedStage(r)'
    BY Zenon, <1>0 DEF RInv, Stages, ApprovedStage
  <2>2. CodeStage(r)'
    BY Zenon, <1>0 DEF RInv, Stages, CodeStage
  <2>3. TargetStage(r)'
    BY Zenon, <1>0 DEF RInv, Stages, TargetStage, Targeting, Credentials
  <2> QED
    BY <2>1, <2>2, <2>3
<1>5. KidsDistinct' /\ NamesDistinct' /\ SecretsAreOwn'
  BY Zenon, <1>0 DEF RInv, KidsDistinct, NamesDistinct, SecretsAreOwn
<1> QED
  BY <1>1, <1>2, <1>3, <1>4, <1>5 DEF RInv

\* Every step of a request.
LEMMA RegistrationStepInv ==
    ASSUME RInv, NEW r \in Requests, RegistrationStep(r)
    PROVE  RInv'
<1>1. CASE LowerStep(r)
  <2>1. Carried(r) /\ ElevationStep(r)
    BY <1>1 DEF LowerStep, Carried
  <2> QED
    BY <2>1, SessionStepInv, RequireElevation1FAInv, UserSessionElevationGETInv,
       UserSessionElevationPOSTInv, SaveOneTimeCodeInv, UserSessionElevationPUTInv,
       ConsumeOneTimeCodeInv, UserSessionElevateDELETEInv, RevokeOneTimeCodeInv,
       RequireElevatedInv, RequireAdministrationInv DEF ElevationStep
<1> QED
  BY <1>1, TOTPRegisterPUTInv, TOTPRegisterPOSTInv, EnrollHistoryInv,
     SaveTOTPConfigurationInv, TOTPRegisterDELETEInv, TOTPConfigurationDELETEInv,
     WebAuthnRegistrationPUTInv, WebAuthnRegistrationPOSTInv, SaveWebAuthnCredentialInv,
     WebAuthnRegistrationDELETEInv, WebAuthnCredentialPUTInv,
     UpdateWebAuthnCredentialDescriptionInv, WebAuthnCredentialDELETEInv, DeleteRowInv
     DEF RegistrationStep

\* Every step keeps the invariant.
LEMMA NextRInv == RInv /\ [NextRegistration]_registrationVars => RInv'
<1> SUFFICES ASSUME RInv, [NextRegistration]_registrationVars PROVE RInv'
  OBVIOUS
<1>1. CASE Tick /\ UNCHANGED <<registered, target>>
  <2>1. now' \in 0 .. MaxNow
    BY <1>1, LifespanAssumption DEF Tick, RInv, TypeOKElevation
  <2> QED
    BY <1>1, <2>1, TickRInv DEF Tick
<1>2. CASE \E r \in Requests : RegistrationStep(r)
  BY <1>2, RegistrationStepInv
<1>3. CASE UNCHANGED registrationVars
  <2>1. now' \in 0 .. MaxNow
    BY <1>3 DEF registrationVars, elevationVars, elevation, RInv, TypeOKElevation
  <2> QED
    BY <1>3, <2>1, TickRInv DEF registrationVars, elevationVars, elevation
<1> QED
  BY <1>1, <1>2, <1>3 DEF NextRegistration

\* The invariant holds throughout: sessions, elevations, approvals and rows fit together
\* for any number of requests, users, identifiers, codes and credentials.
THEOREM SettingsInvariance == SpecRegistration => []RInv
BY InitRInv, NextRInv, PTL DEF SpecRegistration

\* What the run of the settings pages checks of elevations: they are earned, with a code of
\* the session's own user, and a handler works for the user the middleware let through.
THEOREM ElevationsSound == SpecRegistration => []ElevationSound
<1>1. RInv => ElevationSound
  <2> SUFFICES ASSUME RInv PROVE ElevationSound
    OBVIOUS
  <2>1. ElevationsEarned
    BY DEF RInv, StoredRightful, Rightful, ElevationsEarned
  <2>2. ApprovalHolds
    <3> SUFFICES ASSUME NEW r \in Requests, approved[r] # NoUser
                 PROVE  GetSession(sid[r]).user \in {approved[r], NoUser}
      BY DEF ApprovalHolds
    <3>1. sid[r] \in issued /\ told[sid[r]][1] = approved[r]
      BY DEF RInv, Stages, ApprovedStage
    <3>2. Identity(GetSession(sid[r])) \in {told[sid[r]], Nobody}
      BY <3>1, ReadsKnown DEF RInv
    <3>3. Identity(GetSession(sid[r]))[1] = GetSession(sid[r]).user /\ Nobody[1] = NoUser
      BY Zenon DEF Identity, Nobody, NewDefaultUserSession
    <3> QED
      BY Zenon, <3>1, <3>2, <3>3
  <2> QED
    BY <2>1, <2>2 DEF ElevationSound, RInv
<1> QED
  BY <1>1, SettingsInvariance, PTL

\* What it checks of second factors: a user's secret was made for this user, and the names
\* of a user's credentials are distinct.
THEOREM RegistrationsSound == SpecRegistration => []RegistrationSound
<1>1. RInv => RegistrationSound
  BY DEF RInv, RegistrationSound
<1> QED
  BY <1>1, SettingsInvariance, PTL

----------------------------------------------------------------------------
(* What no step does.                                                      *)

\* Settled codes stay as they are.
LEMMA StepSettles ==
    ASSUME RInv, NEW r \in Requests, RegistrationStep(r)
    PROVE  CodesSettleOnce
<1>0. TypeOKElevation /\ CodeStage(r)
  BY Before
<1>1. CASE codes' = codes
  BY <1>1 DEF CodesSettleOnce
<1>2. CASE SaveOneTimeCode(r)
  <2>1. codes \in Seq(OneTimeCodes)
    BY <1>0 DEF TypeOKElevation, OneTimeCodes
  <2>2. PICK row : codes' = Append(codes, row)
    BY <1>2 DEF SaveOneTimeCode
  <2> QED
    BY <2>1, <2>2 DEF CodesSettleOnce
<1>3. CASE /\ codes[code[r]].status = "pending"
           /\ \E st : codes' = [codes EXCEPT ![code[r]].status = st]
  BY <1>0, <1>3 DEF CodesSettleOnce, TypeOKElevation
<1>4. ASSUME LowerStep(r) PROVE CodesSettleOnce
  <2>1. CASE ConsumeOneTimeCode(r)
    BY Zenon, <2>1, <1>3 DEF ConsumeOneTimeCode
  <2>2. CASE RevokeOneTimeCode(r)
    BY <2>2, <1>1, <1>3 DEF RevokeOneTimeCode
  <2>3. CASE \/ SessionStep(r) \/ RequireElevation1FA(r) \/ UserSessionElevationGET(r)
             \/ UserSessionElevationPOST(r) \/ UserSessionElevationPUT(r)
             \/ UserSessionElevateDELETE(r) \/ RequireElevated(r)
             \/ RequireAdministration(r)
    BY <2>3, <1>1
       DEF SessionStep, RequireElevation1FA, UserSessionElevationGET,
           UserSessionElevationPOST, UserSessionElevationPUT, UserSessionElevateDELETE,
           RequireElevated, RequireAdministration, elevation
  <2> QED
    BY <2>1, <2>2, <2>3, <1>2, <1>4 DEF LowerStep, ElevationStep
<1>5. ASSUME ~LowerStep(r) PROVE codes' = codes
  BY Zenon, <1>5
     DEF RegistrationStep, TOTPRegisterPUT, TOTPRegisterPOST, EnrollHistory,
         SaveTOTPConfiguration, TOTPRegisterDELETE, TOTPConfigurationDELETE,
         WebAuthnRegistrationPUT, WebAuthnRegistrationPOST, SaveWebAuthnCredential,
         WebAuthnRegistrationDELETE, WebAuthnCredentialPUT,
         UpdateWebAuthnCredentialDescription, WebAuthnCredentialDELETE, DeleteRow,
         Handle, elevation
<1> QED
  BY <1>1, <1>4, <1>5

\* Only a request at work on a row changes second factors.
LEMMA ChangesAtWork ==
    ASSUME NEW r, RegistrationStep(r),
           ~SaveTOTPConfiguration(r), ~SaveWebAuthnCredential(r),
           ~UpdateWebAuthnCredentialDescription(r), ~DeleteRow(r)
    PROVE  totpConfig' = totpConfig /\ credentials' = credentials
<1>1. CASE LowerStep(r)
  BY <1>1
     DEF LowerStep, ElevationStep, SessionStep, RequireElevation1FA, SaveOneTimeCode,
         UserSessionElevationGET, UserSessionElevationPOST, UserSessionElevationPUT,
         ConsumeOneTimeCode, UserSessionElevateDELETE, RevokeOneTimeCode,
         RequireElevated, RequireAdministration, devices
<1>2. CASE ~LowerStep(r)
  BY Zenon, <1>2
     DEF RegistrationStep, TOTPRegisterPUT, TOTPRegisterPOST, EnrollHistory,
         TOTPRegisterDELETE, TOTPConfigurationDELETE,
         WebAuthnRegistrationPUT, WebAuthnRegistrationPOST,
         WebAuthnRegistrationDELETE, WebAuthnCredentialPUT,
         WebAuthnCredentialDELETE, Handle, devices
<1> QED
  BY <1>1, <1>2

\* Changes are made for the user the request was let through for.
LEMMA StepApproved ==
    ASSUME RInv, NEW r \in Requests, RegistrationStep(r)
    PROVE  OnlyApprovedChanges
<1>0. TypeOKElevation /\ TypeOKRegistration /\ TargetStage(r)
  BY Before
<1>1. ASSUME pc[r] \in Changing,
             \A u \in Users : u # sess[r].user => totpConfig'[u] = totpConfig[u],
             \A c : c.user # sess[r].user => (c \in credentials' <=> c \in credentials)
      PROVE  OnlyApprovedChanges
  <2> SUFFICES ASSUME NEW u \in Users, u # sess[r].user
               PROVE  /\ totpConfig'[u] = totpConfig[u]
                      /\ {c \in credentials' : c.user = u} = {c \in credentials : c.user = u}
    BY <1>1, WorksFor DEF OnlyApprovedChanges
  <2> QED
    BY <1>1
<1>2. CASE SaveTOTPConfiguration(r)
  BY <1>0, <1>1, <1>2 DEF SaveTOTPConfiguration, Changing, TypeOKElevation
<1>3. CASE SaveWebAuthnCredential(r)
  BY <1>1, <1>3 DEF SaveWebAuthnCredential, Changing
<1>4. CASE UpdateWebAuthnCredentialDescription(r)
  <2>1. target[r].user = sess[r].user /\ pc[r] \in Changing /\ totpConfig' = totpConfig
    BY <1>0, <1>4 DEF UpdateWebAuthnCredentialDescription, TargetStage, Targeting, Changing
  <2>2. ASSUME NEW c, c.user # sess[r].user PROVE c \in credentials' <=> c \in credentials
    BY Zenon, <2>1, <2>2, <1>4 DEF UpdateWebAuthnCredentialDescription
  <2> QED
    BY <2>1, <2>2, <1>1
<1>5. CASE DeleteRow(r)
  <2>1. pc[r] \in Changing
    BY <1>5 DEF DeleteRow, Changing
  <2>2. CASE op[r] = "totpDELETE"
    BY Zenon, <2>1, <2>2, <1>0, <1>1, <1>5 DEF DeleteRow, TypeOKElevation
  <2>3. CASE op[r] = "credentialDELETE"
    <3>1. /\ target[r].user = sess[r].user
          /\ \A c \in credentials : c.kid = target[r].kid => c.user = target[r].user
      BY Zenon, <2>3, <1>0, <1>5 DEF DeleteRow, TargetStage, Targeting
    <3>2. credentials' = {c \in credentials : c.kid # target[r].kid}
          /\ totpConfig' = totpConfig
      BY Zenon, <2>3, <1>5 DEF DeleteRow
    <3> QED
      BY <3>1, <3>2, <2>1, <1>1
  <2> QED
    BY Zenon, <2>2, <2>3, <1>5 DEF DeleteRow
<1>6. CASE totpConfig' = totpConfig /\ credentials' = credentials
  BY <1>6 DEF OnlyApprovedChanges
<1> QED
  BY <1>2, <1>3, <1>4, <1>5, <1>6, ChangesAtWork

\* No step settles a code twice, and none changes second factors but for the user its
\* request was let through for.
THEOREM SettingsAlwaysSafe == SpecRegistration => SettingsSafe
<1>1. RInv /\ [NextRegistration]_registrationVars
        => [CodesSettleOnce /\ OnlyApprovedChanges]_registrationVars
  <2> SUFFICES ASSUME RInv, NextRegistration
               PROVE  CodesSettleOnce /\ OnlyApprovedChanges
    OBVIOUS
  <2>1. CASE Tick
    BY <2>1 DEF Tick, devices, CodesSettleOnce, OnlyApprovedChanges
  <2> QED
    BY <2>1, StepSettles, StepApproved DEF NextRegistration
<1> QED
  BY <1>1, SettingsInvariance, PTL DEF SpecRegistration, SettingsSafe
=============================================================================
