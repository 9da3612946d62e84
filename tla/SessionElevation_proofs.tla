----------------------- MODULE SessionElevation_proofs ----------------------
(***************************************************************************)
(* Proofs about elevations and second factors, for any number of requests, *)
(* users, codes and credentials: the inductive invariant RInv, and that    *)
(* the steps of the sessions and of their elevation keep it.  The steps of *)
(* the other handlers and the theorems are in                              *)
(* SecondFactorRegistration_proofs.                                        *)
(*                                                                         *)
(* They rest on the invariant of the sessions (UserSession_proofs): an     *)
(* identifier a client holds keeps its user, so that the user a request    *)
(* was approved for is the one its handler works for.                      *)
(***************************************************************************)
EXTENDS SecondFactorRegistration, UserSession_proofs

\* With codes cs, the elevation of a session was earned by its user, and a secret pending
\* in it was made for this user.
Rightful(s, cs) ==
    /\ s.elevation # NoElevation =>
         /\ s.elevation.id \in DOMAIN cs
         /\ cs[s.elevation.id].user = s.user
         /\ cs[s.elevation.id].ip = s.elevation.ip
         /\ cs[s.elevation.id].status = "consumed"
    /\ s.totp # NoPending => s.totp.user = s.user

StoredRightful == \A i \in Ids : store[i] # NoSession => Rightful(store[i], codes)

CopiesRightful == \A r \in Requests : Rightful(sess[r], codes)

Credentials == [kid : 1 .. registered, user : Users, name : Registrations]

\* Where a request is that changes the rows of a user.
Changing == {"enroll", "configure", "credential", "rename", "delete"}

\* A request in front of a row it found.
Targeting(h, to) == to = "rename" \/ (to = "delete" /\ h = "credentialDELETE")

\* A request behind RequireElevated works for the user it was let through for, under an
\* identifier that is this user's.
ApprovedStage(r) ==
    /\ pc[r] = "idle" => op[r] = "none"
    /\ approved[r] # NoUser =>
         /\ op[r] \in ElevatedHandlers
         /\ sid[r] \in issued
         /\ told[sid[r]][1] = approved[r]
    /\ op[r] \in ElevatedHandlers => pc[r] \in {"admin", "load", "save"} \cup Changing
    /\ op[r] \in ElevatedHandlers /\ pc[r] # "save" => approved[r] # NoUser
    /\ pc[r] \in {"admin"} \cup Changing => op[r] \in ElevatedHandlers
    /\ pc[r] \in Changing => sess[r].user = approved[r]
    /\ pc[r] = "credential" => sess[r].webauthn \in Registrations

\* A request with a one-time code has one of its user and address.
CodeStage(r) ==
    /\ op[r] \in ElevationHandlers =>
         ip[r] \in IPs /\ pc[r] \in {"load", "regenerate", "code", "save"}
    /\ op[r] = "elevationPUT" /\ pc[r] \in {"regenerate", "code"} =>
         /\ code[r] \in DOMAIN codes
         /\ codes[code[r]].user = sess[r].user
         /\ codes[code[r]].ip = ip[r]
    /\ pc[r] = "revoke" => code[r] \in DOMAIN codes

\* A row a request found is its user's, and stays its user's.
TargetStage(r) ==
    Targeting(op[r], pc[r]) =>
        /\ target[r] \in Credentials
        /\ target[r].user = sess[r].user
        /\ \A c \in credentials : c.kid = target[r].kid => c.user = target[r].user

Stages == \A r \in Requests : ApprovedStage(r) /\ CodeStage(r) /\ TargetStage(r)

KidsDistinct == \A c, d \in credentials : c.kid = d.kid => c = d

\* The inductive invariant.
RInv ==
    /\ IInv
    /\ TypeOKElevation
    /\ TypeOKRegistration
    /\ StoredRightful
    /\ CopiesRightful
    /\ Stages
    /\ KidsDistinct
    /\ NamesDistinct
    /\ SecretsAreOwn

----------------------------------------------------------------------------
(* The table of one-time codes.                                            *)

OneTimeCodes == [user : Users, ip : IPs, expires : Nat,
                 status : {"pending", "consumed", "revoked"}]

\* What a row of a table is.
LEMMA Row ==
    ASSUME NEW R, NEW t \in Seq(R), NEW c \in DOMAIN t
    PROVE  t[c] \in R /\ c \in 1 .. Len(t)
OBVIOUS

\* What a row of the table of codes is.
LEMMA OneTimeCode ==
    ASSUME TypeOKElevation, NEW c \in DOMAIN codes
    PROVE  codes[c] \in OneTimeCodes /\ c \in 1 .. Len(codes)
BY Zenon, Row DEF TypeOKElevation, OneTimeCodes

\* The types, one by one: the clock, the table, and what requests know.
LEMMA ElevationTypes ==
    ASSUME TypeOKElevation
    PROVE  /\ now \in 0 .. MaxNow
           /\ codes \in Seq(OneTimeCodes)
           /\ Len(codes) <= MaxCodes
           /\ ip \in [Requests -> IPs \cup {NoIP}]
           /\ code \in [Requests -> 0 .. Len(codes)]
           /\ approved \in [Requests -> Users \cup {NoUser}]
BY Zenon DEF TypeOKElevation, OneTimeCodes

\* The numbers among them.
LEMMA ElevationNumbers ==
    ASSUME TypeOKElevation
    PROVE  /\ now \in Nat /\ now <= MaxNow
           /\ Len(codes) \in Nat /\ Len(codes) <= MaxCodes
<1>1. now \in Nat /\ now <= MaxNow
  BY ElevationTypes, LifespanAssumption
<1>2. Len(codes) \in Nat
  <2>1. codes \in Seq(OneTimeCodes)
    BY ElevationTypes
  <2> QED
    BY <2>1
<1> QED
  BY Zenon, <1>1, <1>2, ElevationTypes

\* A step that leaves the clock and the second factors alone.
LEMMA ElevationTyped ==
    ASSUME TypeOKElevation, now' = now, UNCHANGED devices,
           codes' \in Seq(OneTimeCodes), Len(codes') <= MaxCodes,
           ip' \in [Requests -> IPs \cup {NoIP}],
           code' \in [Requests -> 0 .. Len(codes')],
           approved' \in [Requests -> Users \cup {NoUser}]
    PROVE  TypeOKElevation'
<1>1. totpConfig' = totpConfig /\ credentials' = credentials
  BY DEF devices
<1> QED
  BY Zenon, <1>1 DEF TypeOKElevation, OneTimeCodes

\* A table with one more row.
LEMMA RowAdded ==
    ASSUME NEW R, NEW t \in Seq(R), NEW e \in R, NEW u, u = Append(t, e)
    PROVE  /\ u \in Seq(R) /\ Len(u) = Len(t) + 1
           /\ \A c \in DOMAIN t : c \in DOMAIN u /\ u[c] = t[c]
OBVIOUS

\* A table with one row replaced.
LEMMA RowReplaced ==
    ASSUME NEW R, NEW t \in Seq(R), NEW d \in DOMAIN t, NEW e \in R,
           NEW u, u = [t EXCEPT ![d] = e]
    PROVE  /\ u \in Seq(R) /\ Len(u) = Len(t) /\ u[d] = e
           /\ \A c \in DOMAIN t : c \in DOMAIN u /\ (c # d => u[c] = t[c])
OBVIOUS

----------------------------------------------------------------------------
(* Sessions that are rightful.                                             *)

\* The default session, and one that a user has just logged in to.
LEMMA FreshRightful ==
    ASSUME NEW cs, NEW s \in Sessions, s.elevation = NoElevation, s.totp = NoPending
    PROVE  Rightful(s, cs)
BY DEF Rightful

\* Only the user, the elevation and the pending secret count.
LEMMA SameRightful ==
    ASSUME NEW cs, NEW s \in Sessions, NEW t \in Sessions, Rightful(s, cs),
           t.user = s.user, t.elevation = s.elevation, t.totp = s.totp
    PROVE  Rightful(t, cs)
BY DEF Rightful

\* Nobody has an elevation or a pending secret.
LEMMA NobodyRightful ==
    ASSUME TypeOKElevation, NEW s \in Sessions, s.user = NoUser, Rightful(s, codes)
    PROVE  s.elevation = NoElevation /\ s.totp = NoPending
<1>1. ASSUME NEW c \in DOMAIN codes PROVE codes[c].user \in Users
  BY OneTimeCode DEF OneTimeCodes
<1>2. s.totp \in Pendings \cup {NoPending}
  BY DEF Sessions
<1>3. s.totp # NoPending => s.totp.user \in Users
  BY <1>2, PendingsAssumption
<1> QED
  BY <1>1, <1>3, UsersAssumption DEF Rightful

\* What a request reads is rightful.
LEMMA ReadsRightful ==
    ASSUME IInv, StoredRightful, NEW id \in issued \cup 0 .. last
    PROVE  Rightful(GetSession(id), codes)
<1>1. id # NoId => id \in Ids
  BY MaxIdsAssumption DEF IInv, TypeOK, Ids, NoId
<1>2. Rightful(NewDefaultUserSession, codes)
  BY DefaultSession, FreshRightful DEF NewDefaultUserSession
<1> QED
  BY <1>1, <1>2 DEF GetSession, StoredRightful

\* Codes that are asked for later, consumed or revoked take no elevation away.
CodesKept ==
    \A c \in DOMAIN codes :
        /\ c \in DOMAIN codes'
        /\ codes'[c].user = codes[c].user
        /\ codes'[c].ip = codes[c].ip
        /\ codes[c].status = "consumed" => codes'[c].status = "consumed"

\* A rightful session stays rightful.
LEMMA StaysRightful ==
    ASSUME CodesKept, NEW s, Rightful(s, codes)
    PROVE  Rightful(s, codes')
BY DEF CodesKept, Rightful

----------------------------------------------------------------------------
(* A step of one request.                                                  *)

\* What a step of request r leaves to the others.
OthersKept(r) ==
    \A o \in Requests : o # r =>
        /\ pc'[o] = pc[o] /\ op'[o] = op[o] /\ sid'[o] = sid[o] /\ sess'[o] = sess[o]
        /\ ip'[o] = ip[o] /\ code'[o] = code[o] /\ approved'[o] = approved[o]
        /\ target'[o] = target[o]

\* Rows keep their owners, and new ones have new key ids.
RowsKept ==
    /\ registered' \in Nat /\ registered <= registered'
    /\ \A c \in credentials' :
         \/ c.kid > registered
         \/ \E d \in credentials : d.kid = c.kid /\ d.user = c.user

\* Clients keep the identifiers they have, with what they were told.
ToldKept == issued \subseteq issued' /\ \A i \in issued : told'[i] = told[i]

\* The stages of the other requests.
LEMMA OtherStages ==
    ASSUME RInv, NEW r \in Requests, OthersKept(r), CodesKept, RowsKept, ToldKept,
           NEW o \in Requests, o # r
    PROVE  (ApprovedStage(o) /\ CodeStage(o) /\ TargetStage(o))'
<1> USE DEF OthersKept
<1>1. ApprovedStage(o)'
  BY DEF RInv, Stages, ApprovedStage, ToldKept
<1>2. CodeStage(o)'
  BY DEF RInv, Stages, CodeStage, CodesKept
<1>3. TargetStage(o)'
  <2> SUFFICES ASSUME Targeting(op'[o], pc'[o])
               PROVE  /\ target'[o] \in Credentials'
                      /\ target'[o].user = sess'[o].user
                      /\ \A c \in credentials' : c.kid = target'[o].kid => c.user = target'[o].user
    BY DEF TargetStage, Targeting
  <2>1. /\ target[o] \in Credentials /\ target[o].user = sess[o].user
        /\ \A c \in credentials : c.kid = target[o].kid => c.user = target[o].user
    BY DEF RInv, Stages, TargetStage
  <2>2. target[o] \in Credentials' /\ target[o].kid \in 1 .. registered
    BY <2>1 DEF RowsKept, Credentials, RInv, TypeOKRegistration
  <2>3. ASSUME NEW c \in credentials', c.kid = target[o].kid
        PROVE  c.user = target[o].user
    BY <2>1, <2>2, <2>3 DEF RowsKept, RInv, TypeOKRegistration
  <2> QED
    BY <2>1, <2>2, <2>3
<1> QED
  BY <1>1, <1>2, <1>3

\* A step of a request keeps the invariant when it does so for the request itself.
LEMMA RequestStep ==
    ASSUME RInv, NEW r \in Requests, IInv', TypeOKElevation', TypeOKRegistration',
           OthersKept(r), CodesKept, RowsKept, ToldKept,
           \A i \in Ids : store'[i] # NoSession => Rightful(store'[i], codes'),
           Rightful(sess'[r], codes'),
           (ApprovedStage(r) /\ CodeStage(r) /\ TargetStage(r))',
           KidsDistinct', NamesDistinct', SecretsAreOwn'
    PROVE  RInv'
<1>1. StoredRightful'
  BY DEF StoredRightful
<1>2. CopiesRightful'
  <2> SUFFICES ASSUME NEW o \in Requests PROVE Rightful(sess'[o], codes')
    BY DEF CopiesRightful
  <2>1. Rightful(sess[o], codes')
    BY StaysRightful DEF RInv, CopiesRightful
  <2> QED
    BY <2>1 DEF OthersKept
<1>3. Stages'
  BY OtherStages DEF Stages
<1> QED
  BY <1>1, <1>2, <1>3 DEF RInv

\* A step that leaves the rows alone.
LEMMA SameRows ==
    ASSUME RInv, UNCHANGED <<devices, registered>>
    PROVE  /\ RowsKept /\ KidsDistinct' /\ NamesDistinct' /\ SecretsAreOwn'
           /\ totpConfig' \in [Users -> Pendings \cup {NoPending}]
           /\ credentials' \subseteq [kid : Nat, user : Users, name : Registrations]
<1> USE DEF devices, RInv
<1>1. RowsKept
  BY DEF RowsKept, TypeOKRegistration
<1>2. KidsDistinct' /\ NamesDistinct' /\ SecretsAreOwn'
  BY DEF KidsDistinct, NamesDistinct, SecretsAreOwn
<1> QED
  BY <1>1, <1>2 DEF TypeOKElevation

\* A step that leaves the codes alone.
LEMMA SameCodes ==
    ASSUME UNCHANGED codes
    PROVE  CodesKept
BY DEF CodesKept

\* A store that is left alone, or gets a document that is rightful.
LEMMA StoreStays ==
    ASSUME RInv, UNCHANGED store, CodesKept
    PROVE  \A i \in Ids : store'[i] # NoSession => Rightful(store'[i], codes')
BY StaysRightful DEF RInv, StoredRightful

----------------------------------------------------------------------------
(* A step of the session layer.                                            *)

\* It leaves the other requests and what clients hold alone.
LEMMA StepFrame ==
    ASSUME IInv, NEW r \in Requests, Step(r)
    PROVE  /\ \A o \in Requests : o # r =>
                /\ pc'[o] = pc[o] /\ op'[o] = op[o]
                /\ sid'[o] = sid[o] /\ sess'[o] = sess[o]
           /\ ToldKept
<1>1. ASSUME NEW id, NEW new, Respond(r, id, new)
      PROVE  ToldKept /\ \A o \in Requests : o # r => op'[o] = op[o]
  BY <1>1 DEF Respond, ToldKept, IInv, TypeOK, Ids
<1>2. ASSUME NEW to, NEW id, NEW s, Goto(r, to, id, s)
      PROVE  \A o \in Requests : o # r =>
               pc'[o] = pc[o] /\ sid'[o] = sid[o] /\ sess'[o] = sess[o]
  BY <1>2 DEF Goto, IInv, TypeOK
<1>3. ASSUME NEW to, NEW id, NEW s, NEW h, Begin(r, h, id, to, s)
      PROVE  \A o \in Requests : o # r => op'[o] = op[o]
  BY <1>3 DEF Begin, IInv, TypeOK
<1>4. issued' = issued /\ told' = told => ToldKept
  BY DEF ToldKept
<1>5. CASE \/ FirstFactorPasswordPOST(r) \/ FirstFactorPasskeyGET(r)
           \/ FirstFactorPasskeyPOST(r) \/ Require1FA(r) \/ LogoutPOST(r)
           \/ CookieSessionAuthnStrategyGet(r)
  <2>1. PICK to, id, s, h : Begin(r, h, id, to, s)
    BY Zenon, <1>5 DEF FirstFactorPasswordPOST, FirstFactorPasskeyGET,
       FirstFactorPasskeyPOST,
                Require1FA, Admit, LogoutPOST, CookieSessionAuthnStrategyGet
  <2>2. issued' = issued /\ told' = told
    BY Zenon, <1>5 DEF FirstFactorPasswordPOST, FirstFactorPasskeyGET,
       FirstFactorPasskeyPOST,
                Require1FA, Admit, LogoutPOST, CookieSessionAuthnStrategyGet, stable
  <2> QED
    BY <2>1, <2>2, <1>2, <1>3, <1>4 DEF Begin
<1>6. CASE \/ TimeBasedOneTimePasswordPOST(r) \/ ExistsTOTPHistory(r)
           \/ SaveTOTPHistory(r) \/ WebAuthnAssertionGET(r) \/ WebAuthnAssertionPOST(r)
           \/ DuoPOST(r) \/ SecondFactorPasswordPOST(r)
           \/ FirstFactorReauthenticatePOST(r)
           \/ RegenerateSession(r) \/ UpdateExpirationFails(r) \/ ResetSession(r)
  <2>1. PICK to, id, s : Goto(r, to, id, s)
    BY <1>6 DEF TimeBasedOneTimePasswordPOST, ExistsTOTPHistory, SaveTOTPHistory, Load,
                WebAuthnAssertionGET, WebAuthnAssertionPOST, DuoPOST,
                SecondFactorPasswordPOST, FirstFactorReauthenticatePOST,
                RegenerateSession, UpdateExpirationFails, ResetSession
  <2>2. issued' = issued /\ told' = told /\ op' = op
    BY <1>6 DEF TimeBasedOneTimePasswordPOST, ExistsTOTPHistory, SaveTOTPHistory, stable,
                WebAuthnAssertionGET, WebAuthnAssertionPOST, DuoPOST,
                SecondFactorPasswordPOST, FirstFactorReauthenticatePOST,
                RegenerateSession, UpdateExpirationFails, ResetSession
  <2> QED
    BY <2>1, <2>2, <1>2, <1>4
<1>7. CASE \/ ResetFails(r) \/ Refuse(r) \/ SaveSession(r) \/ SaveFails(r)
           \/ RegenerateFails(r) \/ DestroySession(r) \/ DestroyFails(r)
  <2>1. \/ \E id, new : Respond(r, id, new)
        \/ (\E to, id, s : Goto(r, to, id, s)) /\ issued' = issued /\ told' = told /\ op' = op
    BY <1>7 DEF ResetFails, Refuse, SaveSession, SaveFails, RegenerateFails,
                DestroySession, DestroyFails
  <2>2. CASE \E id, new : Respond(r, id, new)
    BY <2>2, <1>1, <1>2 DEF Respond
  <2>3. CASE (\E to, id, s : Goto(r, to, id, s)) /\ issued' = issued /\ told' = told
             /\ op' = op
    BY <2>3, <1>2, <1>4
  <2> QED
    BY <2>1, <2>2, <2>3
<1> QED
  BY <1>5, <1>6, <1>7 DEF Step

\* The documents it leaves in the store are those that were there, the request's copy and
\* the default.
LEMMA StepStores ==
    ASSUME IInv, NEW r \in Requests, Step(r), NEW i \in Ids
    PROVE  \/ store'[i] = NoSession \/ store'[i] = NewDefaultUserSession
           \/ store'[i] = sess[r] \/ \E j \in Ids : store'[i] = store[j]
<1>1. CASE store' = store
  BY <1>1
<1>2. ASSUME NEW id, \/ store' = [store EXCEPT ![id] = NoSession]
                     \/ store' = [store EXCEPT ![id] = NewDefaultUserSession]
                     \/ store' = [store EXCEPT ![id] = sess[r]]
      PROVE  \/ store'[i] = NoSession \/ store'[i] = NewDefaultUserSession
             \/ store'[i] = sess[r] \/ \E j \in Ids : store'[i] = store[j]
  BY <1>2 DEF IInv, TypeOK
<1>3. CASE store' = Regenerated(sid[r], last + 1)
  <2>1. CASE sid[r] = NoId \/ store[sid[r]] = NoSession
    BY <2>1, <1>1, <1>3 DEF Regenerated
  <2>2. CASE sid[r] # NoId /\ store[sid[r]] # NoSession
    <3>1. sid[r] \in Ids
      BY <2>2, MaxIdsAssumption DEF IInv, TypeOK, Ids, NoId
    <3>2. store' = [store EXCEPT ![sid[r]] = NoSession, ![last + 1] = store[sid[r]]]
      BY <2>2, <1>3 DEF Regenerated
    <3>3. store'[i] = NoSession \/ store'[i] = store[sid[r]] \/ store'[i] = store[i]
      BY <3>2 DEF IInv, TypeOK
    <3> QED
      BY <3>1, <3>3
  <2> QED
    BY <2>1, <2>2
<1>4. CASE \/ FirstFactorPasswordPOST(r) \/ FirstFactorPasskeyGET(r)
           \/ FirstFactorPasskeyPOST(r) \/ Require1FA(r) \/ LogoutPOST(r)
           \/ CookieSessionAuthnStrategyGet(r)
           \/ TimeBasedOneTimePasswordPOST(r) \/ ExistsTOTPHistory(r)
           \/ SaveTOTPHistory(r) \/ WebAuthnAssertionGET(r) \/ WebAuthnAssertionPOST(r)
           \/ DuoPOST(r) \/ SecondFactorPasswordPOST(r)
           \/ FirstFactorReauthenticatePOST(r)
           \/ Refuse(r) \/ SaveFails(r) \/ RegenerateFails(r)
  <2>1. store' = store
    BY Zenon, <1>4
       DEF FirstFactorPasswordPOST, FirstFactorPasskeyGET, FirstFactorPasskeyPOST,
           Require1FA, Admit, LogoutPOST, CookieSessionAuthnStrategyGet,
           TimeBasedOneTimePasswordPOST, ExistsTOTPHistory, SaveTOTPHistory, stable,
           WebAuthnAssertionGET, WebAuthnAssertionPOST, DuoPOST,
           SecondFactorPasswordPOST, FirstFactorReauthenticatePOST,
           Refuse, SaveFails, RegenerateFails, Respond
  <2> QED
    BY <2>1, <1>1
<1>5. CASE RegenerateSession(r) \/ UpdateExpirationFails(r)
  BY <1>3, <1>5 DEF RegenerateSession, UpdateExpirationFails
<1>6. CASE ResetSession(r)
  BY <1>2, <1>6 DEF ResetSession
<1>7. CASE ResetFails(r)
  BY <1>1, <1>2, <1>7 DEF ResetFails, Respond
<1>8. CASE SaveSession(r)
  BY <1>2, <1>8 DEF SaveSession, Respond
<1>9. CASE DestroySession(r)
  BY <1>1, <1>2, <1>9 DEF DestroySession, Respond
<1>10. CASE DestroyFails(r)
  BY <1>1, <1>10 DEF DestroyFails, Respond
<1> QED
  BY <1>4, <1>5, <1>6, <1>7, <1>8, <1>9, <1>10 DEF Step

\* The request's copy stays rightful: it is read, kept, or taken for a login that starts
\* without an elevation and without a pending secret.
LEMMA StepCopies ==
    ASSUME RInv, NEW r \in Requests, Step(r)
    PROVE  Rightful(sess'[r], codes)
<1> DEFINE N == NewDefaultUserSession
<1>0. /\ IInv /\ TypeOKElevation /\ StoredRightful
      /\ sess[r] \in Sessions /\ Own(sess[r]) /\ Rightful(sess[r], codes)
      /\ sid[r] \in 0 .. last
  BY DEF RInv, IInv, TypeOK, CopiesRightful, CopiesFit, Fit
<1>1. N \in Sessions /\ Rightful(N, codes)
  BY DefaultSession, FreshRightful DEF NewDefaultUserSession
<1>2. ASSUME NEW to, NEW id, NEW s, Goto(r, to, id, s), Rightful(s, codes)
      PROVE  Rightful(sess'[r], codes)
  BY <1>0, <1>2 DEF Goto, IInv, TypeOK
<1>3. ASSUME NEW id \in issued \cup 0 .. last
      PROVE  /\ GetSession(id) \in Sessions /\ Own(GetSession(id))
             /\ Rightful(GetSession(id), codes)
  BY <1>0, ReadsKnown, ReadsRightful
<1>4. ASSUME NEW id \in issued \cup 0 .. last,
             NEW w \in {"none", "assertion", "passkey"} \cup Registrations
      PROVE  Rightful([GetSession(id) EXCEPT !.webauthn = w], codes)
  <2>1. PICK s \in Sessions : s = GetSession(id) /\ Own(s) /\ Rightful(s, codes)
    BY <1>3
  <2>2. [s EXCEPT !.webauthn = w] \in Sessions
    BY <2>1, Ceremony
  <2>3. /\ [s EXCEPT !.webauthn = w].user = s.user
        /\ [s EXCEPT !.webauthn = w].elevation = s.elevation
        /\ [s EXCEPT !.webauthn = w].totp = s.totp
    BY DEF Sessions
  <2> QED
    BY Zenon, <2>1, <2>2, <2>3, SameRightful
<1>5. NoId \in 0 .. last /\ sid[r] \in 0 .. last
  BY <1>0 DEF IInv, TypeOK, NoId
<1>6. CASE FirstFactorPasswordPOST(r)
  <2>1. PICK id \in issued \cup {NoId}, u \in Users :
          Begin(r, "firstfactor", id, "destroy",
                [N EXCEPT !.user = u, !.amr = {<<u, "pwd">>}])
    BY Zenon, <1>6 DEF FirstFactorPasswordPOST
  <2>2. Rightful([N EXCEPT !.user = u, !.amr = {<<u, "pwd">>}], codes)
    BY DEF NewDefaultUserSession, Rightful
  <2> QED
    BY <2>1, <2>2, <1>2 DEF Begin
<1>7. CASE FirstFactorPasskeyGET(r) \/ FirstFactorPasskeyPOST(r)
  <2>1. PICK id, w, h, to :
          /\ id \in issued \cup {NoId} /\ w \in {"none", "passkey"}
          /\ Begin(r, h, id, to, [GetSession(id) EXCEPT !.webauthn = w])
    BY Zenon, <1>7 DEF FirstFactorPasskeyGET, FirstFactorPasskeyPOST
  <2> QED
    BY <2>1, <1>2, <1>4, <1>5 DEF Begin
<1>8. CASE LogoutPOST(r) \/ CookieSessionAuthnStrategyGet(r)
  <2>1. PICK id, h, to :
          id \in issued \cup {NoId} /\ Begin(r, h, id, to, GetSession(id))
    BY <1>8 DEF LogoutPOST, CookieSessionAuthnStrategyGet
  <2> QED
    BY <2>1, <1>2, <1>3, <1>5 DEF Begin
<1>9. CASE Require1FA(r)
  <2>1. PICK id, h : Begin(r, h, id, "load", N)
    BY <1>9 DEF Require1FA, Admit
  <2> QED
    BY <2>1, <1>1, <1>2 DEF Begin
<1>10. CASE WebAuthnAssertionGET(r) \/ WebAuthnAssertionPOST(r)
  <2>1. PICK w, h, to :
          /\ w \in {"none", "assertion"}
          /\ Load(r, h, to, [GetSession(sid[r]) EXCEPT !.webauthn = w])
    BY <1>10 DEF WebAuthnAssertionGET, WebAuthnAssertionPOST
  <2> QED
    BY <2>1, <1>2, <1>4, <1>5 DEF Load
<1>11. CASE \/ TimeBasedOneTimePasswordPOST(r) \/ DuoPOST(r)
            \/ SecondFactorPasswordPOST(r) \/ FirstFactorReauthenticatePOST(r)
  <2>1. PICK h, to : Load(r, h, to, GetSession(sid[r]))
    BY <1>11 DEF TimeBasedOneTimePasswordPOST, DuoPOST, SecondFactorPasswordPOST,
                 FirstFactorReauthenticatePOST
  <2> QED
    BY <2>1, <1>2, <1>3, <1>5 DEF Load
<1>12. CASE RegenerateSession(r)
  <2>1. PICK u \in (IF op[r] = "passkeyPOST" THEN Users ELSE {sess[r].user}) :
          Goto(r, Afterwards(op[r]), last + 1, Raised(op[r], sess[r], u))
    BY <1>12 DEF RegenerateSession
  <2>2. /\ u \in Users
        /\ sess[r].user = u \/ (op[r] = "passkeyPOST" /\ sess[r].amr = {}
                                /\ sess[r].user = NoUser)
    BY <1>0, <1>12, <2>1 DEF RegenerateSession, IInv, CopiesFit, Fit, ForUser, Working
  <2>3. Raised(op[r], sess[r], u) \in Sessions /\ Raised(op[r], sess[r], u).user = u
    BY <1>0, <2>2, RaisedOwn
  <2>4. /\ Raised(op[r], sess[r], u).elevation = sess[r].elevation
        /\ Raised(op[r], sess[r], u).totp = sess[r].totp
    BY <1>0 DEF Raised, Sessions
  <2>5. Rightful(Raised(op[r], sess[r], u), codes)
    <3>1. CASE sess[r].user = u
      BY <3>1, <1>0, <2>3, <2>4, SameRightful
    <3>2. CASE sess[r].user = NoUser
      BY <3>2, <1>0, <2>3, <2>4, NobodyRightful, FreshRightful
    <3> QED
      BY <3>1, <3>2, <2>2
  <2> QED
    BY <2>1, <2>5, <1>2
<1>13. CASE \/ ExistsTOTPHistory(r) \/ SaveTOTPHistory(r) \/ ResetSession(r)
            \/ UpdateExpirationFails(r)
  <2>1. PICK to, id : Goto(r, to, id, sess[r])
    BY <1>13 DEF ExistsTOTPHistory, SaveTOTPHistory, ResetSession, UpdateExpirationFails
  <2> QED
    BY <2>1, <1>0, <1>2
<1>14. CASE \/ ResetFails(r) \/ Refuse(r) \/ SaveSession(r) \/ SaveFails(r)
            \/ RegenerateFails(r) \/ DestroySession(r) \/ DestroyFails(r)
  <2>1. \/ \E to, id : Goto(r, to, id, N)
        \/ \E to, id : Goto(r, to, id, sess[r])
    BY Zenon, <1>14 DEF ResetFails, Refuse, SaveSession, SaveFails, RegenerateFails,
                 DestroySession, DestroyFails, Respond
  <2> QED
    BY <2>1, <1>0, <1>1, <1>2
<1> QED
  BY <1>6, <1>7, <1>8, <1>9, <1>10, <1>11, <1>12, <1>13, <1>14 DEF Step

\* What a request does next: it answers, it is one of a handler without elevation, or it
\* has a new identifier for a one-time code.
LEMMA StepShape ==
    ASSUME RInv, NEW r \in Requests, Step(r)
    PROVE  \/ pc'[r] = "idle" /\ op'[r] = "none"
           \/ /\ op[r] \notin ElevatedHandlers
              /\ op'[r] \notin ElevatedHandlers \cup ElevationHandlers
              /\ pc'[r] \in {"load", "destroy", "save", "regenerate", "reset", "history",
                             "record"}
           \/ /\ pc[r] = "regenerate" /\ op'[r] = op[r]
              /\ op[r] \in ElevationHandlers
              /\ pc'[r] \in {"code", "save"}
              /\ sess'[r].user = sess[r].user
<1>0. /\ IInv /\ ApprovedStage(r) /\ CodeStage(r)
      /\ pc[r] = "idle" => op[r] = "none"
      /\ op[r] \in ElevatedHandlers => pc[r] \in {"admin", "load", "save"} \cup Changing
      /\ op[r] \in ElevationHandlers => pc[r] \in {"load", "regenerate", "code", "save"}
      /\ pc[r] \in {"reset"} => op[r] = "firstfactor"
  BY DEF RInv, Stages, ApprovedStage, CodeStage, IInv, CopiesFit, Fit
<1>1. ASSUME NEW id, NEW new, Respond(r, id, new)
      PROVE  pc'[r] = "idle" /\ op'[r] = "none"
  BY <1>0, <1>1 DEF Respond, Goto, IInv, TypeOK
<1>2. ASSUME NEW to, NEW id, NEW s, Goto(r, to, id, s)
      PROVE  pc'[r] = to /\ sess'[r] = s
  BY <1>0, <1>2 DEF Goto, IInv, TypeOK
<1>3. ASSUME NEW h, NEW to, NEW id, NEW s, Begin(r, h, id, to, s)
      PROVE  pc'[r] = to /\ op'[r] = h /\ op[r] = "none"
  BY <1>0, <1>3 DEF Begin, Goto, IInv, TypeOK
<1>4. CASE \/ FirstFactorPasswordPOST(r) \/ FirstFactorPasskeyGET(r)
           \/ FirstFactorPasskeyPOST(r) \/ Require1FA(r) \/ LogoutPOST(r)
           \/ CookieSessionAuthnStrategyGet(r)
  <2>1. PICK h, to, id, s :
          /\ h \in {"firstfactor", "passkeyGET", "passkeyPOST", "logout", "authz"}
                     \cup Behind1FA
          /\ to \in {"load", "destroy", "save", "regenerate"}
          /\ Begin(r, h, id, to, s)
    BY Zenon, <1>4 DEF FirstFactorPasswordPOST, FirstFactorPasskeyGET,
       FirstFactorPasskeyPOST,
                Require1FA, Admit, LogoutPOST, CookieSessionAuthnStrategyGet
  <2> QED
    BY <2>1, <1>3 DEF ElevatedHandlers, ElevationHandlers, Behind1FA
<1>5. CASE \/ TimeBasedOneTimePasswordPOST(r) \/ WebAuthnAssertionGET(r)
           \/ WebAuthnAssertionPOST(r) \/ DuoPOST(r) \/ SecondFactorPasswordPOST(r)
           \/ FirstFactorReauthenticatePOST(r)
  <2>1. PICK h, to, s :
          h \in Behind1FA /\ to \in {"history", "save", "regenerate"} /\ Load(r, h, to, s)
    BY <1>5 DEF TimeBasedOneTimePasswordPOST, WebAuthnAssertionGET, WebAuthnAssertionPOST,
                DuoPOST, SecondFactorPasswordPOST, FirstFactorReauthenticatePOST, Behind1FA
  <2>2. op' = op
    BY <1>5 DEF TimeBasedOneTimePasswordPOST, WebAuthnAssertionGET, WebAuthnAssertionPOST,
                DuoPOST, SecondFactorPasswordPOST, FirstFactorReauthenticatePOST
  <2> QED
    BY <2>1, <2>2, <1>2 DEF Load, ElevatedHandlers, ElevationHandlers, Behind1FA
<1>6. CASE ExistsTOTPHistory(r) \/ SaveTOTPHistory(r)
  <2>1. PICK to, id, s : to \in {"regenerate", "record"} /\ Goto(r, to, id, s)
    BY SMTT(30), <1>6 DEF ExistsTOTPHistory, SaveTOTPHistory
  <2> QED
    BY <2>1, <1>0, <1>2, <1>6
       DEF ExistsTOTPHistory, SaveTOTPHistory, Changing
<1>7. CASE RegenerateSession(r)
  <2>1. PICK u \in (IF op[r] = "passkeyPOST" THEN Users ELSE {sess[r].user}) :
          Goto(r, Afterwards(op[r]), last + 1, Raised(op[r], sess[r], u))
    BY <1>7 DEF RegenerateSession
  <2>2. pc[r] = "regenerate" /\ op' = op
    BY <1>7 DEF RegenerateSession
  <2>3. pc'[r] = Afterwards(op[r]) /\ sess'[r] = Raised(op[r], sess[r], u)
    BY <2>1, <1>2
  <2>4. CASE op[r] \in ElevationHandlers
    <3>1. u = sess[r].user
      BY <2>1, <2>4 DEF ElevationHandlers
    <3>2. sess'[r].user = u
      BY <1>0, <2>3 DEF Raised, IInv, TypeOK, Sessions
    <3> QED
      BY <3>1, <3>2, <2>2, <2>3, <2>4 DEF Afterwards
  <2>5. CASE op[r] \notin ElevationHandlers
    BY <2>2, <2>3, <2>5, <1>0 DEF Afterwards, ElevationHandlers, Changing
  <2> QED
    BY <2>4, <2>5
<1>8. CASE UpdateExpirationFails(r)
  <2>1. PICK id : Goto(r, "save", id, sess[r])
    BY <1>8 DEF UpdateExpirationFails
  <2> QED
    BY <2>1, <1>2, <1>8 DEF UpdateExpirationFails, ElevatedHandlers, ElevationHandlers
<1>9. CASE ResetSession(r)
  <2>1. PICK to, id : to \in {"save", "regenerate"} /\ Goto(r, to, id, sess[r])
    BY SMTT(30), <1>9 DEF ResetSession
  <2> QED
    BY <2>1, <1>0, <1>2, <1>9 DEF ResetSession, ElevatedHandlers, ElevationHandlers
<1>10. CASE RegenerateFails(r)
  <2>1. CASE \E id, new : Respond(r, id, new)
    BY <2>1, <1>1
  <2>2. CASE op[r] \in Deferred /\ Goto(r, "save", sid[r], sess[r]) /\ op' = op
    BY <2>2, <1>2 DEF Deferred, ElevatedHandlers, ElevationHandlers
  <2> QED
    BY <2>1, <2>2, <1>10 DEF RegenerateFails
<1>11. CASE DestroySession(r) \/ DestroyFails(r)
  <2>1. CASE \E id, new : Respond(r, id, new)
    BY <2>1, <1>1
  <2>2. CASE /\ op[r] \in {"firstfactor", "authz"} /\ op' = op
             /\ \E to \in {"reset", "save"} : \E id, s : Goto(r, to, id, s)
    BY <2>2, <1>2 DEF ElevatedHandlers, ElevationHandlers
  <2> QED
    BY <2>1, <2>2, <1>11 DEF DestroySession, DestroyFails
<1>12. CASE ResetFails(r) \/ Refuse(r) \/ SaveSession(r) \/ SaveFails(r)
  <2>1. \E id, new : Respond(r, id, new)
    BY <1>12 DEF ResetFails, Refuse, SaveSession, SaveFails
  <2> QED
    BY <2>1, <1>1
<1> QED
  BY <1>4, <1>5, <1>6, <1>7, <1>8, <1>9, <1>10, <1>11, <1>12 DEF Step

\* Nothing is said of a request that has been answered.
LEMMA AnsweredStages ==
    ASSUME NEW r, pc'[r] = "idle", op'[r] = "none", approved'[r] = NoUser
    PROVE  (ApprovedStage(r) /\ CodeStage(r) /\ TargetStage(r))'
BY DEF ApprovedStage, CodeStage, TargetStage, Targeting, Changing, ElevatedHandlers,
       ElevationHandlers

\* A request forgets what it knows when it is answered, and only then.
LEMMA Forgets ==
    ASSUME TypeOKElevation, NEW r \in Requests, Forget(r),
           Len(codes') \in Nat, Len(codes) <= Len(codes')
    PROVE  /\ ip' \in [Requests -> IPs \cup {NoIP}]
           /\ code' \in [Requests -> 0 .. Len(codes')]
           /\ approved' \in [Requests -> Users \cup {NoUser}]
           /\ \A o \in Requests : o # r =>
                ip'[o] = ip[o] /\ code'[o] = code[o] /\ approved'[o] = approved[o]
           /\ pc'[r] = "idle" => approved'[r] = NoUser
           /\ pc'[r] # "idle" =>
                ip'[r] = ip[r] /\ code'[r] = code[r] /\ approved'[r] = approved[r]
<1>1. Len(codes) \in Nat
  BY DEF TypeOKElevation
<1>2. code' \in [Requests -> 0 .. Len(codes')]
  BY <1>1 DEF TypeOKElevation, Forget, NoCode
<1> QED
  BY <1>2 DEF TypeOKElevation, Forget

\* A step of the layers below keeps the row a request found until it is answered.
Carried(r) ==
    /\ target' = [target EXCEPT ![r] = IF pc'[r] = "idle" THEN NoTarget ELSE target[r]]
    /\ registered' = registered

\* What such a step leaves alone.
LEMMA Carries ==
    ASSUME TypeOKRegistration, NEW r \in Requests, Carried(r), UNCHANGED devices
    PROVE  /\ TypeOKRegistration'
           /\ \A o \in Requests : o # r => target'[o] = target[o]
           /\ pc'[r] # "idle" => target'[r] = target[r]
BY DEF TypeOKRegistration, Carried, devices

\* A step of a login, a second factor or a logout.
LEMMA SessionStepInv ==
    ASSUME RInv, NEW r \in Requests, SessionStep(r), Carried(r)
    PROVE  RInv'
<1>0. /\ IInv /\ TypeOKElevation /\ TypeOKRegistration /\ StoredRightful
      /\ ApprovedStage(r) /\ CodeStage(r)
      /\ Step(r) /\ Forget(r) /\ now' = now /\ codes' = codes /\ UNCHANGED devices
      /\ UNCHANGED <<devices, registered>>
  BY DEF RInv, Stages, SessionStep, Carried
<1>1. IInv'
  BY <1>0, StepInv
<1>2. CodesKept
  BY <1>0, SameCodes
<1>3. /\ RowsKept /\ KidsDistinct' /\ NamesDistinct' /\ SecretsAreOwn'
  BY <1>0, SameRows
<1>4. /\ ip' \in [Requests -> IPs \cup {NoIP}]
      /\ code' \in [Requests -> 0 .. Len(codes')]
      /\ approved' \in [Requests -> Users \cup {NoUser}]
      /\ \A o \in Requests : o # r =>
           ip'[o] = ip[o] /\ code'[o] = code[o] /\ approved'[o] = approved[o]
      /\ pc'[r] = "idle" => approved'[r] = NoUser
      /\ pc'[r] # "idle" =>
           ip'[r] = ip[r] /\ code'[r] = code[r] /\ approved'[r] = approved[r]
  <2>1. Len(codes') \in Nat /\ Len(codes) <= Len(codes')
    BY <1>0 DEF TypeOKElevation
  <2> QED
    BY <2>1, <1>0, Forgets
<1>5. TypeOKElevation'
  BY <1>0, <1>4 DEF TypeOKElevation, devices
<1>6. /\ TypeOKRegistration' /\ \A o \in Requests : o # r => target'[o] = target[o]
  BY <1>0, Carries
<1>7. OthersKept(r) /\ ToldKept
  BY <1>0, <1>4, <1>6, StepFrame DEF OthersKept
<1>8. \A i \in Ids : store'[i] # NoSession => Rightful(store'[i], codes')
  <2> SUFFICES ASSUME NEW i \in Ids, store'[i] # NoSession
               PROVE  Rightful(store'[i], codes)
    BY <1>0
  <2>1. Rightful(NewDefaultUserSession, codes)
    BY DefaultSession, FreshRightful DEF NewDefaultUserSession
  <2>2. Rightful(sess[r], codes)
    BY DEF RInv, CopiesRightful
  <2> QED
    BY <2>1, <2>2, <1>0, StepStores DEF StoredRightful
<1>9. Rightful(sess'[r], codes')
  BY <1>0, StepCopies
<1>10. (ApprovedStage(r) /\ CodeStage(r) /\ TargetStage(r))'
  <2>1. CASE pc'[r] = "idle" /\ op'[r] = "none"
    BY <2>1, <1>4, AnsweredStages
  <2>2. CASE /\ op[r] \notin ElevatedHandlers
             /\ op'[r] \notin ElevatedHandlers \cup ElevationHandlers
             /\ pc'[r] \in {"load", "destroy", "save", "regenerate", "reset", "history",
                            "record"}
    <3>1. approved[r] = NoUser /\ approved'[r] = NoUser
      BY <2>2, <1>0, <1>4 DEF ApprovedStage
    <3>2. ApprovedStage(r)'
      BY <2>2, <3>1 DEF ApprovedStage, Changing
    <3>3. CodeStage(r)'
      BY <2>2 DEF CodeStage, ElevationHandlers
    <3>4. TargetStage(r)'
      BY <2>2 DEF TargetStage, Targeting
    <3> QED
      BY <3>2, <3>3, <3>4
  <2>3. CASE /\ pc[r] = "regenerate" /\ op'[r] = op[r]
             /\ op[r] \in ElevationHandlers
             /\ pc'[r] \in {"code", "save"}
             /\ sess'[r].user = sess[r].user
    <3>1. approved[r] = NoUser /\ approved'[r] = NoUser /\ op'[r] \notin ElevatedHandlers
      BY <2>3, <1>0, <1>4 DEF ApprovedStage, ElevationHandlers, ElevatedHandlers
    <3>2. ApprovedStage(r)'
      BY <2>3, <3>1 DEF ApprovedStage, Changing
    <3>3. CodeStage(r)'
      BY <2>3, <1>0, <1>4 DEF CodeStage
    <3>4. TargetStage(r)'
      BY <2>3 DEF TargetStage, Targeting
    <3> QED
      BY <3>2, <3>3, <3>4
  <2> QED
    BY <2>1, <2>2, <2>3, StepShape, <1>0
<1> QED
  BY <1>1, <1>2, <1>3, <1>5, <1>6, <1>7, <1>8, <1>9, <1>10, RequestStep

----------------------------------------------------------------------------
(* Steps of the handlers behind the sessions.                              *)

\* A request that begins or goes on with copy s and leaves the store as it is.
LEMMA MovesOn ==
    ASSUME RInv, NEW r \in Requests, NEW h, NEW to, NEW id, NEW s,
           Goto(r, to, id, s), op' = [op EXCEPT ![r] = h],
           UNCHANGED <<store, issued, told>>,
           IInv', TypeOKElevation', TypeOKRegistration',
           \A o \in Requests : o # r =>
             /\ ip'[o] = ip[o] /\ code'[o] = code[o] /\ approved'[o] = approved[o]
             /\ target'[o] = target[o],
           CodesKept, RowsKept, KidsDistinct', NamesDistinct', SecretsAreOwn',
           Rightful(s, codes'),
           (ApprovedStage(r) /\ CodeStage(r) /\ TargetStage(r))'
    PROVE  RInv'
<1>1. OthersKept(r) /\ sess'[r] = s
  BY DEF OthersKept, Goto, RInv, IInv, TypeOK
<1>2. ToldKept
  BY DEF ToldKept
<1>3. \A i \in Ids : store'[i] # NoSession => Rightful(store'[i], codes')
  BY StoreStays
<1> QED
  BY <1>1, <1>2, <1>3, RequestStep

\* A request that is answered and leaves the store as it is.
LEMMA IsAnswered ==
    ASSUME RInv, NEW r \in Requests, NEW id \in 0 .. last, Exclusive(r, id),
           Respond(r, id, store), Forget(r), UNCHANGED <<last, totpHistory>>,
           TypeOKElevation', TypeOKRegistration',
           \A o \in Requests : o # r => target'[o] = target[o],
           CodesKept, RowsKept, KidsDistinct', NamesDistinct', SecretsAreOwn'
    PROVE  RInv'
<1>0. IInv /\ TypeOK /\ TypeOKElevation
  BY DEF RInv, IInv
<1>1. IInv'
  <2>1. last' \in last .. MaxIds /\ id \in 0 .. last'
    BY <1>0 DEF TypeOK
  <2>2. totpHistory' \subseteq Users \X Steps
    BY <1>0 DEF TypeOK
  <2> QED
    BY <2>1, <2>2, <1>0, StoreKeeps, Answers
<1>2. pc'[r] = "idle" /\ op'[r] = "none" /\ sess'[r] = NewDefaultUserSession
  BY <1>0 DEF Respond, Goto, TypeOK
<1>3. /\ approved'[r] = NoUser
      /\ \A o \in Requests : o # r =>
           ip'[o] = ip[o] /\ code'[o] = code[o] /\ approved'[o] = approved[o]
  BY <1>0, <1>2 DEF Forget, TypeOKElevation
<1>4. OthersKept(r)
  BY <1>0, <1>3 DEF OthersKept, Respond, Goto, TypeOK
<1>5. ToldKept
  BY <1>0 DEF ToldKept, Respond, TypeOK, Ids
<1>6. \A i \in Ids : store'[i] # NoSession => Rightful(store'[i], codes')
  <2>1. store' = store
    BY DEF Respond
  <2> QED
    BY <2>1, StoreStays
<1>7. Rightful(sess'[r], codes')
  BY <1>2, DefaultSession, FreshRightful DEF NewDefaultUserSession
<1>8. (ApprovedStage(r) /\ CodeStage(r) /\ TargetStage(r))'
  BY <1>2, <1>3, AnsweredStages
<1> QED
  BY <1>1, <1>4, <1>5, <1>6, <1>7, <1>8, RequestStep

\* A handler reads the session of a user and goes on with a copy of the same identity.
LEMMA LoadsForUser ==
    ASSUME IInv, NEW r \in Requests, NEW h, NEW s \in Sessions,
           NEW to \in {"regenerate", "save", "credential", "rename", "delete"},
           h \notin {"firstfactor", "passkeyPOST"},
           ~IsAnonymous(GetSession(sid[r])),
           Identity(s) = Identity(GetSession(sid[r])),
           Load(r, h, to, s), UNCHANGED <<stable, op, step>>
    PROVE  IInv' /\ s.user \in Users
<1>1. sid[r] \in 0 .. last /\ step[r] \in Steps \cup {NoStep}
  BY DEF IInv, TypeOK
<1>2. GetSession(sid[r]) \in Sessions /\ Own(GetSession(sid[r]))
  BY <1>1, ReadsKnown
<1>3. s.user = GetSession(sid[r]).user /\ s.amr = GetSession(sid[r]).amr
  BY DEF Identity
<1>4. Own(s) /\ s.user \in Users
  BY <1>2, <1>3, Anonymous DEF Own
<1>5. Fit(h, to, s, step[r])
  BY <1>4 DEF Fit
<1>6. to \in PCs
  BY DEF PCs
<1> QED
  BY <1>1, <1>4, <1>5, <1>6, SameStep, Loads

\* A session with another elevation.
LEMMA OtherElevation ==
    ASSUME NEW s \in Sessions, NEW e \in Elevations \cup {NoElevation}
    PROVE  LET t == [s EXCEPT !.elevation = e]
           IN  /\ t \in Sessions /\ Identity(t) = Identity(s)
               /\ t.user = s.user /\ t.elevation = e /\ t.totp = s.totp
BY DEF Sessions, Identity

\* What a request knows before it takes a step.
LEMMA Before ==
    ASSUME RInv, NEW r \in Requests
    PROVE  /\ IInv /\ TypeOK /\ TypeOKElevation /\ TypeOKRegistration
           /\ ApprovedStage(r) /\ CodeStage(r) /\ TargetStage(r)
           /\ sess[r] \in Sessions /\ Own(sess[r]) /\ Rightful(sess[r], codes)
           /\ sid[r] \in 0 .. last
           /\ pc[r] = "idle" => op[r] = "none" /\ approved[r] = NoUser
           /\ op[r] \in ElevationHandlers => approved[r] = NoUser
           /\ GetSession(sid[r]) \in Sessions /\ Own(GetSession(sid[r]))
           /\ Rightful(GetSession(sid[r]), codes)
<1>1. /\ IInv /\ TypeOK /\ TypeOKElevation /\ TypeOKRegistration
      /\ ApprovedStage(r) /\ CodeStage(r) /\ TargetStage(r)
      /\ sess[r] \in Sessions /\ Own(sess[r]) /\ Rightful(sess[r], codes)
      /\ sid[r] \in 0 .. last /\ StoredRightful
  BY DEF RInv, Stages, IInv, TypeOK, CopiesRightful, CopiesFit, Fit
<1>2. /\ pc[r] = "idle" => op[r] = "none" /\ approved[r] = NoUser
      /\ op[r] \in ElevationHandlers => approved[r] = NoUser
  BY <1>1 DEF ApprovedStage, ElevatedHandlers, ElevationHandlers
<1>3. /\ GetSession(sid[r]) \in Sessions /\ Own(GetSession(sid[r]))
      /\ Rightful(GetSession(sid[r]), codes)
  BY <1>1, ReadsKnown, ReadsRightful
<1> QED
  BY <1>1, <1>2, <1>3

\* The default session is rightful.
LEMMA DefaultRightful == Rightful(NewDefaultUserSession, codes)
BY DefaultSession, FreshRightful DEF NewDefaultUserSession

\* A request for the elevation is let through.
LEMMA RequireElevation1FAInv ==
    ASSUME RInv, NEW r \in Requests, RequireElevation1FA(r), Carried(r)
    PROVE  RInv'
<1>0. /\ IInv /\ TypeOK /\ TypeOKElevation /\ TypeOKRegistration
      /\ pc[r] = "idle" => op[r] = "none" /\ approved[r] = NoUser
  BY Before
<1>1. PICK h \in ElevationHandlers, id \in issued :
        Begin(r, h, id, "load", NewDefaultUserSession)
  BY DEF RequireElevation1FA, Admit
<1>2. PICK a \in IPs : ip' = [ip EXCEPT ![r] = a]
  BY Zenon DEF RequireElevation1FA
<1>3. /\ Admit(r, ElevationHandlers) /\ UNCHANGED <<now, codes, code, approved, devices>>
      /\ UNCHANGED <<devices, registered>> /\ UNCHANGED <<store, issued, told>>
  BY DEF RequireElevation1FA, Admit, stable, Carried
<1>4. IInv'
  BY <1>0, <1>3, AdmitInv DEF ElevationHandlers
<1>5. pc'[r] = "load" /\ op'[r] = h /\ pc[r] = "idle"
  BY <1>0, <1>1 DEF Begin, Goto, TypeOK
<1>6. CodesKept /\ RowsKept /\ KidsDistinct' /\ NamesDistinct' /\ SecretsAreOwn'
  BY <1>3, SameCodes, SameRows
<1>7. TypeOKElevation'
  BY <1>0, <1>2, <1>3 DEF TypeOKElevation, devices
<1>8. TypeOKRegistration' /\ \A o \in Requests : o # r => target'[o] = target[o]
  BY <1>0, <1>3, Carries
<1>9. \A o \in Requests : o # r =>
        ip'[o] = ip[o] /\ code'[o] = code[o] /\ approved'[o] = approved[o]
  BY <1>0, <1>2, <1>3 DEF TypeOKElevation
<1>10. Rightful(NewDefaultUserSession, codes')
  BY <1>3, DefaultRightful
<1>11. (ApprovedStage(r) /\ CodeStage(r) /\ TargetStage(r))'
  <2>1. ip'[r] \in IPs /\ approved'[r] = NoUser
    BY <1>0, <1>2, <1>3, <1>5 DEF TypeOKElevation
  <2>2. h \notin ElevatedHandlers
    BY DEF ElevatedHandlers, ElevationHandlers
  <2>3. ApprovedStage(r)'
    BY <1>5, <2>1, <2>2 DEF ApprovedStage, Changing
  <2>4. CodeStage(r)'
    BY <1>5, <2>1 DEF CodeStage
  <2>5. TargetStage(r)'
    BY <1>5 DEF TargetStage, Targeting
  <2> QED
    BY <2>3, <2>4, <2>5
<1> QED
  BY Zenon, <1>1, <1>3, <1>4, <1>6, <1>7, <1>8, <1>9, <1>10, <1>11,
     MovesOn DEF Begin

\* A handler of the elevation reads the session and goes on with a copy of it.
LEMMA ElevationLoads ==
    ASSUME RInv, NEW r \in Requests, NEW h \in ElevationHandlers, NEW s \in Sessions,
           NEW to \in {"save", "regenerate"},
           ~IsAnonymous(GetSession(sid[r])),
           Identity(s) = Identity(GetSession(sid[r])), Rightful(s, codes),
           Load(r, h, to, s), UNCHANGED <<stable, op, step>>,
           UNCHANGED <<now, codes, ip, approved, devices>>,
           code' \in [Requests -> 0 .. Len(codes)],
           \A o \in Requests : o # r => code'[o] = code[o],
           to = "regenerate" /\ h = "elevationPUT" =>
             /\ code'[r] \in DOMAIN codes
             /\ codes[code'[r]].user = s.user
             /\ codes[code'[r]].ip = ip[r],
           Carried(r)
    PROVE  RInv'
<1>0. /\ IInv /\ TypeOK /\ TypeOKElevation /\ TypeOKRegistration /\ CodeStage(r)
      /\ op[r] \in ElevationHandlers => approved[r] = NoUser
  BY Before
<1>1. IInv' /\ s.user \in Users
  BY <1>0, LoadsForUser DEF ElevationHandlers
<1>2. UNCHANGED <<devices, registered>> /\ UNCHANGED <<store, issued, told>>
  BY DEF stable, Carried
<1>3. /\ Goto(r, to, sid[r], s) /\ op[r] = h /\ op' = [op EXCEPT ![r] = h]
      /\ pc'[r] = to /\ sess'[r] = s
  BY <1>0 DEF Load, Goto, TypeOK
<1>4. CodesKept /\ RowsKept /\ KidsDistinct' /\ NamesDistinct' /\ SecretsAreOwn'
  BY <1>2, SameCodes, SameRows
<1>5. TypeOKElevation'
  BY <1>0 DEF TypeOKElevation, devices
<1>6. TypeOKRegistration' /\ \A o \in Requests : o # r => target'[o] = target[o]
  BY <1>0, Carries
<1>7. Rightful(s, codes')
  OBVIOUS
<1>8. (ApprovedStage(r) /\ CodeStage(r) /\ TargetStage(r))'
  <2>1. ApprovedStage(r)'
    BY <1>0, <1>3 DEF ApprovedStage, Changing, ElevatedHandlers, ElevationHandlers
  <2>2. CodeStage(r)'
    BY <1>0, <1>3 DEF CodeStage
  <2>3. TargetStage(r)'
    BY <1>3 DEF TargetStage, Targeting
  <2> QED
    BY <2>1, <2>2, <2>3
<1> QED
  BY Zenon, <1>1, <1>2, <1>3, <1>4, <1>5, <1>6, <1>7, <1>8, MovesOn

\* An elevation that is not valid any more is dropped.
LEMMA UserSessionElevationGETInv ==
    ASSUME RInv, NEW r \in Requests, UserSessionElevationGET(r), Carried(r)
    PROVE  RInv'
<1> DEFINE t == [GetSession(sid[r]) EXCEPT !.elevation = NoElevation]
<1>0. /\ GetSession(sid[r]) \in Sessions /\ Rightful(GetSession(sid[r]), codes)
      /\ TypeOKElevation
  BY Before
<1>1. /\ t \in Sessions /\ Identity(t) = Identity(GetSession(sid[r]))
      /\ t.user = GetSession(sid[r]).user /\ t.elevation = NoElevation
      /\ t.totp = GetSession(sid[r]).totp
  BY <1>0, OtherElevation
<1>2. /\ ~IsAnonymous(GetSession(sid[r])) /\ Load(r, "elevationGET", "save", t)
      /\ UNCHANGED <<stable, op, step>> /\ UNCHANGED <<now, codes, ip, approved, devices>>
      /\ code' = code
  BY DEF UserSessionElevationGET, elevation
<1>3. Rightful(t, codes)
  BY <1>0, <1>1 DEF Rightful
<1>4. /\ code' \in [Requests -> 0 .. Len(codes)]
      /\ \A o \in Requests : o # r => code'[o] = code[o]
  BY <1>0, <1>2 DEF TypeOKElevation
<1>5. "elevationGET" \in ElevationHandlers
  BY DEF ElevationHandlers
<1> HIDE DEF t
<1> QED
  BY <1>1, <1>2, <1>3, <1>4, <1>5, ElevationLoads

\* A code is asked for.
LEMMA UserSessionElevationPOSTInv ==
    ASSUME RInv, NEW r \in Requests, UserSessionElevationPOST(r), Carried(r)
    PROVE  RInv'
<1>0. /\ GetSession(sid[r]) \in Sessions /\ Rightful(GetSession(sid[r]), codes)
      /\ TypeOKElevation
  BY Before
<1>1. /\ ~IsAnonymous(GetSession(sid[r]))
      /\ Load(r, "elevationPOST", "regenerate", GetSession(sid[r]))
      /\ UNCHANGED <<stable, op, step>> /\ UNCHANGED <<now, codes, ip, approved, devices>>
      /\ code' = code
  BY DEF UserSessionElevationPOST, elevation
<1>2. /\ code' \in [Requests -> 0 .. Len(codes)]
      /\ \A o \in Requests : o # r => code'[o] = code[o]
  BY <1>0, <1>1 DEF TypeOKElevation
<1>3. "elevationPOST" \in ElevationHandlers
  BY DEF ElevationHandlers
<1> QED
  BY <1>0, <1>1, <1>2, <1>3, ElevationLoads

\* A code is presented.
LEMMA UserSessionElevationPUTInv ==
    ASSUME RInv, NEW r \in Requests, UserSessionElevationPUT(r), Carried(r)
    PROVE  RInv'
<1>0. /\ GetSession(sid[r]) \in Sessions /\ Rightful(GetSession(sid[r]), codes)
      /\ TypeOKElevation
  BY Before
<1>1. PICK c \in LoadOneTimeCode(GetSession(sid[r]).user, ip[r]) :
        code' = [code EXCEPT ![r] = c]
  BY Zenon DEF UserSessionElevationPUT
<1>2. /\ c \in DOMAIN codes /\ codes[c].user = GetSession(sid[r]).user
      /\ codes[c].ip = ip[r]
  BY DEF LoadOneTimeCode
<1>3. c \in 1 .. Len(codes)
  BY <1>0, <1>2, OneTimeCode
<1>4. /\ ~IsAnonymous(GetSession(sid[r]))
      /\ Load(r, "elevationPUT", "regenerate", GetSession(sid[r]))
      /\ UNCHANGED <<stable, op, step>> /\ UNCHANGED <<now, codes, ip, approved, devices>>
  BY DEF UserSessionElevationPUT
<1>5. /\ code' \in [Requests -> 0 .. Len(codes)] /\ code'[r] = c
      /\ \A o \in Requests : o # r => code'[o] = code[o]
  BY <1>0, <1>1, <1>3 DEF TypeOKElevation
<1>6. "elevationPUT" \in ElevationHandlers
  BY DEF ElevationHandlers
<1> QED
  BY <1>0, <1>2, <1>4, <1>5, <1>6, ElevationLoads

\* The code is stored, for the user and the address of the request.
LEMMA SaveOneTimeCodeInv ==
    ASSUME RInv, NEW r \in Requests, SaveOneTimeCode(r), Carried(r)
    PROVE  RInv'
<1> DEFINE row == [user |-> sess[r].user, ip |-> ip[r], expires |-> now + CodeLifespan,
                   status |-> "pending"]
<1>0. /\ IInv /\ TypeOK /\ TypeOKElevation /\ TypeOKRegistration /\ CodeStage(r)
      /\ sid[r] \in 0 .. last
  BY Before
<1>1. /\ pc[r] = "code" /\ op[r] = "elevationPOST" /\ codes' = Append(codes, row)
      /\ Respond(r, sid[r], store) /\ Forget(r) /\ UNCHANGED <<last, totpHistory>>
      /\ now' = now /\ UNCHANGED devices /\ UNCHANGED <<devices, registered>>
  BY DEF SaveOneTimeCode, Carried
<1>2. sess[r].user \in Users
  BY <1>0, <1>1 DEF IInv, CopiesFit, Fit, ForUser, Working
<1>3. ip[r] \in IPs
  BY <1>0, <1>1 DEF CodeStage, ElevationHandlers
<1>4. row \in OneTimeCodes
  <2>1. now + CodeLifespan \in Nat
    BY <1>0, ElevationNumbers, LifespanAssumption
  <2> QED
    BY <2>1, <1>2, <1>3 DEF OneTimeCodes
<1>5. codes \in Seq(OneTimeCodes)
  BY Zenon, <1>0, ElevationTypes
<1>6. /\ codes' \in Seq(OneTimeCodes) /\ Len(codes') = Len(codes) + 1
      /\ \A c \in DOMAIN codes : c \in DOMAIN codes' /\ codes'[c] = codes[c]
  <2> HIDE DEF row
  <2>1. codes' = Append(codes, row)
    BY <1>1
  <2> QED
    BY <2>1, <1>4, <1>5, RowAdded
<1>7. Len(codes) \in Nat /\ Len(codes) < MaxCodes
  BY Zenon, <1>0, ElevationNumbers DEF SaveOneTimeCode
<1>8. CodesKept
  BY <1>6 DEF CodesKept
<1>9. RowsKept /\ KidsDistinct' /\ NamesDistinct' /\ SecretsAreOwn'
  BY <1>1, SameRows
<1>10. /\ ip' \in [Requests -> IPs \cup {NoIP}]
       /\ code' \in [Requests -> 0 .. Len(codes')]
       /\ approved' \in [Requests -> Users \cup {NoUser}]
  <2>1. Len(codes') \in Nat /\ Len(codes) <= Len(codes')
    BY <1>6, <1>7
  <2> QED
    BY Zenon, <2>1, <1>0, <1>1, Forgets
<1>11. TypeOKElevation'
  <2>1. Len(codes') <= MaxCodes
    BY <1>6, <1>7, LifespanAssumption
  <2> QED
    BY Zenon, <1>0, <1>1, <1>6, <1>10, <2>1, ElevationTyped
<1>12. TypeOKRegistration' /\ \A o \in Requests : o # r => target'[o] = target[o]
  BY <1>0, <1>1, Carries
<1>13. Exclusive(r, sid[r])
  BY <1>0, OwnIdentifier
<1> QED
  BY <1>0, <1>1, <1>8, <1>9, <1>11, <1>12, <1>13, IsAnswered

\* A handler that goes on, under the same identifier, with a copy that fits it.
LEMMA CopyGoesOn ==
    ASSUME IInv, NEW r \in Requests, NEW to \in {"load", "save", "configure"},
           NEW s \in Sessions, Own(s), op[r] \notin {"firstfactor", "passkeyPOST"},
           sid[r] \in issued => Identity(s) \in {told[sid[r]], Nobody},
           to = "configure" => s.user \in Users,
           Goto(r, to, sid[r], s), UNCHANGED <<store, last, issued, told, op, step>>,
           totpHistory' \subseteq Users \X Steps
    PROVE  IInv'
<1>1. /\ last' \in last .. MaxIds /\ sid[r] \in 0 .. last'
      /\ step[r] \in Steps \cup {NoStep} /\ step' = [step EXCEPT ![r] = step[r]]
  BY DEF IInv, TypeOK
<1>2. Exclusive(r, sid[r])
  BY OwnIdentifier
<1>3. KeepsIdentities(store')
  BY StoreKeeps
<1>4. Fit(op[r], to, s, step[r])
  BY DEF Fit, ForUser, Working
<1>5. to \in PCs
  BY DEF PCs
<1> QED
  BY Zenon, <1>1, <1>2, <1>3, <1>4, <1>5, Continues

\* The copy of a handler that is not a login is what its client was told.
LEMMA CopyKnown ==
    ASSUME IInv, NEW r \in Requests, op[r] # "firstfactor", sid[r] \in issued
    PROVE  Identity(sess[r]) \in {told[sid[r]], Nobody}
BY DEF IInv, CopiesKnown, MaySave

\* A code is settled: what was asked for stays, and so does what was consumed.
LEMMA CodeSettled ==
    ASSUME TypeOKElevation, NEW c \in DOMAIN codes, codes[c].status = "pending",
           NEW st \in {"consumed", "revoked"},
           codes' = [codes EXCEPT ![c].status = st]
    PROVE  /\ codes' \in Seq(OneTimeCodes) /\ Len(codes') = Len(codes)
           /\ Len(codes) \in Nat
           /\ CodesKept /\ codes'[c].status = st
<1>1. codes \in Seq(OneTimeCodes) /\ Len(codes) \in Nat
  BY Zenon, ElevationTypes, ElevationNumbers
<1>2. codes[c] \in OneTimeCodes
  BY OneTimeCode
<1>3. PICK e : e = [codes[c] EXCEPT !.status = st]
  OBVIOUS
<1>4. e \in OneTimeCodes /\ e.user = codes[c].user /\ e.ip = codes[c].ip /\ e.status = st
  BY <1>2, <1>3 DEF OneTimeCodes
<1>5. codes' = [codes EXCEPT ![c] = e]
  BY <1>3
<1>6. /\ codes' \in Seq(OneTimeCodes) /\ Len(codes') = Len(codes) /\ codes'[c] = e
      /\ \A d \in DOMAIN codes : d \in DOMAIN codes' /\ (d # c => codes'[d] = codes[d])
  BY <1>1, <1>4, <1>5, RowReplaced
<1>7. CodesKept
  BY <1>4, <1>6 DEF CodesKept
<1> QED
  BY <1>1, <1>4, <1>6, <1>7

\* A code is consumed and elevates the request's copy of the session.
LEMMA ConsumeOneTimeCodeInv ==
    ASSUME RInv, NEW r \in Requests, ConsumeOneTimeCode(r), Carried(r)
    PROVE  RInv'
<1> DEFINE e == [id |-> code[r], ip |-> ip[r], expires |-> now + ElevationLifespan]
           t == [sess[r] EXCEPT !.elevation = e]
<1>0. /\ IInv /\ TypeOK /\ TypeOKElevation /\ TypeOKRegistration /\ CodeStage(r)
      /\ sess[r] \in Sessions /\ Own(sess[r]) /\ Rightful(sess[r], codes)
      /\ op[r] \in ElevationHandlers => approved[r] = NoUser
  BY Before
<1>1. /\ pc[r] = "code" /\ op[r] = "elevationPUT" /\ codes[code[r]].status = "pending"
      /\ codes' = [codes EXCEPT ![code[r]].status = "consumed"]
      /\ Goto(r, "save", sid[r], t)
      /\ UNCHANGED <<store, last, issued, told, op, step>>
      /\ totpHistory' = totpHistory
      /\ UNCHANGED <<now, ip, code, approved>> /\ UNCHANGED devices
      /\ UNCHANGED <<devices, registered>> /\ UNCHANGED <<store, issued, told>>
  BY DEF ConsumeOneTimeCode, stable, Carried
<1>2. /\ code[r] \in DOMAIN codes /\ codes[code[r]].user = sess[r].user
      /\ codes[code[r]].ip = ip[r] /\ ip[r] \in IPs
  BY <1>0, <1>1 DEF CodeStage, ElevationHandlers
<1>3. /\ codes' \in Seq(OneTimeCodes) /\ Len(codes') = Len(codes) /\ Len(codes) \in Nat
      /\ CodesKept /\ codes'[code[r]].status = "consumed"
  BY Zenon, <1>0, <1>1, <1>2, CodeSettled
<1>4. e \in Elevations
  <2>1. /\ code[r] \in 1 .. Len(codes) /\ Len(codes) \in Nat /\ Len(codes) <= MaxCodes
        /\ now \in Nat /\ now <= MaxNow
    BY Zenon, <1>0, <1>2, OneTimeCode, ElevationNumbers
  <2>2. code[r] \in 1 .. MaxCodes
    BY <2>1, LifespanAssumption
  <2>3. now + ElevationLifespan \in 0 .. MaxNow + ElevationLifespan
    BY <2>1, LifespanAssumption
  <2> QED
    BY <2>2, <2>3, <1>2, ElevationsAssumption
<1>5. e.id = code[r] /\ e.ip = ip[r]
  OBVIOUS
<1> HIDE DEF e
<1>6. /\ t \in Sessions /\ Identity(t) = Identity(sess[r])
      /\ t.user = sess[r].user /\ t.elevation = e /\ t.totp = sess[r].totp
  BY <1>0, <1>4, OtherElevation
<1> HIDE DEF t
<1>7. Own(t)
  BY <1>0, <1>6 DEF Own, Identity
<1>8. IInv'
  <2>1. totpHistory' \subseteq Users \X Steps
    BY <1>0, <1>1 DEF TypeOK
  <2> QED
    BY <1>0, <1>1, <1>6, <1>7, <2>1, CopyKnown, CopyGoesOn
<1>9. Rightful(t, codes')
  <2>1. codes'[code[r]].user = t.user /\ codes'[code[r]].ip = e.ip /\ code[r] \in DOMAIN codes'
    BY <1>2, <1>3, <1>5, <1>6 DEF CodesKept
  <2>2. t.totp # NoPending => t.totp.user = t.user
    BY <1>0, <1>6 DEF Rightful
  <2> QED
    BY <2>1, <2>2, <1>3, <1>5, <1>6 DEF Rightful
<1>10. RowsKept /\ KidsDistinct' /\ NamesDistinct' /\ SecretsAreOwn'
  BY <1>1, SameRows
<1>11. TypeOKElevation'
  BY Zenon, <1>0, <1>1, <1>3, ElevationTypes, ElevationTyped
<1>12. TypeOKRegistration' /\ \A o \in Requests : o # r => target'[o] = target[o]
  BY <1>0, <1>1, Carries
<1>13. op' = [op EXCEPT ![r] = op[r]] /\ pc'[r] = "save" /\ op'[r] = op[r]
  BY <1>0, <1>1 DEF TypeOK, Goto
<1>14. (ApprovedStage(r) /\ CodeStage(r) /\ TargetStage(r))'
  BY <1>0, <1>1, <1>2, <1>13
     DEF ApprovedStage, CodeStage, TargetStage, Targeting, Changing, ElevatedHandlers,
         ElevationHandlers
<1> QED
  BY Zenon, <1>1, <1>3, <1>8, <1>9, <1>10, <1>11, <1>12, <1>13, <1>14, MovesOn

\* The link that revokes a code is followed.
LEMMA UserSessionElevateDELETEInv ==
    ASSUME RInv, NEW r \in Requests, UserSessionElevateDELETE(r), Carried(r)
    PROVE  RInv'
<1> DEFINE N == NewDefaultUserSession
<1>0. /\ IInv /\ TypeOK /\ TypeOKElevation /\ TypeOKRegistration
      /\ pc[r] = "idle" => op[r] = "none" /\ approved[r] = NoUser
  BY Before
<1>1. PICK c \in DOMAIN codes :
        /\ Begin(r, "elevationDELETE", NoId, "revoke", N)
        /\ code' = [code EXCEPT ![r] = c]
  BY Zenon DEF UserSessionElevateDELETE
<1>2. /\ UNCHANGED <<stable, step>> /\ UNCHANGED <<now, codes, ip, approved>>
      /\ UNCHANGED devices /\ UNCHANGED <<devices, registered>>
      /\ UNCHANGED <<store, issued, told>>
  BY DEF UserSessionElevateDELETE, stable, Carried
<1>3. c \in 1 .. Len(codes)
  BY <1>0, OneTimeCode
<1>4. IInv'
  <2>1. Fit("elevationDELETE", "revoke", N, step[r])
    BY DefaultSession DEF Fit, ForUser, Working
  <2>2. "revoke" \in PCs /\ N \in Sessions
    BY DefaultSession DEF PCs
  <2>3. NoId \notin issued
    BY <1>0 DEF TypeOK, NoId
  <2> QED
    BY Zenon, <2>1, <2>2, <2>3, <1>0, <1>1, <1>2, Begins
<1>5. CodesKept /\ RowsKept /\ KidsDistinct' /\ NamesDistinct' /\ SecretsAreOwn'
  BY <1>2, SameCodes, SameRows
<1>6. TypeOKElevation'
  <2>1. codes' = codes /\ ip' = ip /\ approved' = approved /\ now' = now
    BY <1>2
  <2>2. code \in [Requests -> 0 .. Len(codes)] /\ c \in 0 .. Len(codes)
    BY <1>0, <1>3, ElevationTypes
  <2>3. code' \in [Requests -> 0 .. Len(codes)]
    BY <2>2, <1>1
  <2> QED
    BY Zenon, <2>1, <2>3, <1>0, <1>2, ElevationTypes, ElevationTyped
<1>7. TypeOKRegistration' /\ \A o \in Requests : o # r => target'[o] = target[o]
  BY <1>0, <1>2, Carries
<1>8. /\ code'[r] = c
      /\ \A o \in Requests : o # r =>
           ip'[o] = ip[o] /\ code'[o] = code[o] /\ approved'[o] = approved[o]
  BY <1>0, <1>1, <1>2 DEF TypeOKElevation
<1>9. /\ pc'[r] = "revoke" /\ op'[r] = "elevationDELETE" /\ pc[r] = "idle"
      /\ Goto(r, "revoke", NoId, N) /\ op' = [op EXCEPT ![r] = "elevationDELETE"]
  BY <1>0, <1>1 DEF Begin, Goto, TypeOK
<1>10. (ApprovedStage(r) /\ CodeStage(r) /\ TargetStage(r))'
  BY <1>0, <1>2, <1>8, <1>9
     DEF ApprovedStage, CodeStage, TargetStage, Targeting, Changing, ElevatedHandlers,
         ElevationHandlers
<1>11. Rightful(N, codes')
  BY <1>2, DefaultRightful
<1> QED
  BY Zenon, <1>2, <1>4, <1>5, <1>6, <1>7, <1>8, <1>9, <1>10, <1>11, MovesOn

\* A code is revoked.
LEMMA RevokeOneTimeCodeInv ==
    ASSUME RInv, NEW r \in Requests, RevokeOneTimeCode(r), Carried(r)
    PROVE  RInv'
<1>0. /\ IInv /\ TypeOK /\ TypeOKElevation /\ TypeOKRegistration /\ CodeStage(r)
  BY Before
<1>1. /\ pc[r] = "revoke" /\ Respond(r, NoId, store) /\ Forget(r)
      /\ UNCHANGED <<last, totpHistory>> /\ now' = now /\ UNCHANGED devices
      /\ UNCHANGED <<devices, registered>>
  BY DEF RevokeOneTimeCode, Carried
<1>2. code[r] \in DOMAIN codes
  BY <1>0, <1>1 DEF CodeStage
<1>3. /\ codes' \in Seq(OneTimeCodes) /\ Len(codes') = Len(codes) /\ Len(codes) \in Nat
      /\ CodesKept
  <2>1. CASE codes' = codes
    BY <2>1, <1>0, SameCodes DEF TypeOKElevation, OneTimeCodes
  <2>2. CASE /\ codes[code[r]].status = "pending"
             /\ codes' = [codes EXCEPT ![code[r]].status = "revoked"]
    BY Zenon, <2>2, <1>0, <1>2, CodeSettled
  <2> QED
    BY <2>1, <2>2 DEF RevokeOneTimeCode
<1>4. RowsKept /\ KidsDistinct' /\ NamesDistinct' /\ SecretsAreOwn'
  BY <1>1, SameRows
<1>5. /\ ip' \in [Requests -> IPs \cup {NoIP}]
      /\ code' \in [Requests -> 0 .. Len(codes')]
      /\ approved' \in [Requests -> Users \cup {NoUser}]
  <2>1. Len(codes') \in Nat /\ Len(codes) <= Len(codes')
    BY <1>3
  <2> QED
    BY Zenon, <2>1, <1>0, <1>1, Forgets
<1>6. TypeOKElevation'
  BY Zenon, <1>0, <1>1, <1>3, <1>5, ElevationTypes, ElevationTyped
<1>7. TypeOKRegistration' /\ \A o \in Requests : o # r => target'[o] = target[o]
  BY <1>0, <1>1, Carries
<1>8. Exclusive(r, NoId) /\ NoId \in 0 .. last
  BY <1>0, OwnIdentifier DEF TypeOK, NoId
<1> QED
  BY <1>1, <1>3, <1>4, <1>6, <1>7, <1>8, IsAnswered

\* The elevation middleware lets a request through, for the user of its session.
LEMMA RequireElevatedInv ==
    ASSUME RInv, NEW r \in Requests, RequireElevated(r), Carried(r)
    PROVE  RInv'
<1> DEFINE N == NewDefaultUserSession
<1>0. /\ IInv /\ TypeOK /\ TypeOKElevation /\ TypeOKRegistration /\ StoredRightful
      /\ pc[r] = "idle" => op[r] = "none" /\ approved[r] = NoUser
  BY Before DEF RInv
<1>1. PICK h \in ElevatedHandlers, id \in issued :
        /\ AuthenticationLevel(GetSession(id)) >= 1
        /\ \/ /\ Begin(r, h, id, IF h = "admin" THEN "admin" ELSE "load", N)
              /\ approved' = [approved EXCEPT ![r] = GetSession(id).user]
           \/ /\ Begin(r, h, id, "save", [GetSession(id) EXCEPT !.elevation = NoElevation])
              /\ UNCHANGED approved
  BY DEF RequireElevated
<1>2. /\ UNCHANGED <<stable, step>> /\ UNCHANGED <<now, codes, ip, code>>
      /\ UNCHANGED devices /\ UNCHANGED <<devices, registered>>
      /\ UNCHANGED <<store, issued, told>>
  BY DEF RequireElevated, stable, Carried
<1>3. /\ GetSession(id) \in Sessions /\ Own(GetSession(id))
      /\ Rightful(GetSession(id), codes) /\ GetSession(id).user \in Users
      /\ Identity(GetSession(id)) \in {told[id], Nobody}
  BY <1>0, <1>1, ReadsKnown, ReadsRightful, Anonymous
<1>4. h \notin {"firstfactor", "passkeyPOST", "none"} \cup ElevationHandlers
  BY DEF ElevatedHandlers, ElevationHandlers
<1>5. CodesKept /\ RowsKept /\ KidsDistinct' /\ NamesDistinct' /\ SecretsAreOwn'
  BY <1>2, SameCodes, SameRows
<1>6. TypeOKElevation'
  BY Zenon, <1>0, <1>1, <1>2, <1>3 DEF TypeOKElevation, devices
<1>7. TypeOKRegistration' /\ \A o \in Requests : o # r => target'[o] = target[o]
  BY <1>0, <1>2, Carries
<1>8. \A o \in Requests : o # r =>
        ip'[o] = ip[o] /\ code'[o] = code[o] /\ approved'[o] = approved[o]
  BY <1>0, <1>1, <1>2 DEF TypeOKElevation
<1>9. CASE /\ Begin(r, h, id, IF h = "admin" THEN "admin" ELSE "load", N)
           /\ approved' = [approved EXCEPT ![r] = GetSession(id).user]
  <2>1. PICK to \in {"admin", "load"} : Begin(r, h, id, to, N)
    BY <1>9
  <2>2. IInv'
    <3>1. Fit(h, to, N, step[r])
      BY <1>4, DefaultSession DEF Fit, ForUser, Working
    <3>2. to \in PCs /\ N \in Sessions /\ Identity(N) \in {told[id], Nobody}
      BY DefaultSession DEF PCs, Nobody
    <3> QED
      BY Zenon, <3>1, <3>2, <2>1, <1>0, <1>2, Begins
  <2>3. /\ Goto(r, to, id, N) /\ op' = [op EXCEPT ![r] = h]
        /\ pc'[r] = to /\ op'[r] = h /\ sid'[r] = id
        /\ approved'[r] = GetSession(id).user
    <3>1. Goto(r, to, id, N) /\ op' = [op EXCEPT ![r] = h]
      BY <2>1 DEF Begin
    <3>2. op'[r] = h
      BY <3>1, <1>0 DEF TypeOK
    <3>3. pc'[r] = to /\ sid'[r] = id
      BY <3>1, <1>0 DEF Goto, TypeOK
    <3>4. approved'[r] = GetSession(id).user
      BY <1>0, <1>9 DEF TypeOKElevation
    <3> QED
      BY <3>1, <3>2, <3>3, <3>4
  <2>4. told[id][1] = GetSession(id).user
    <3>1. Identity(GetSession(id)) # Nobody
      BY <1>3, UsersAssumption DEF Nobody, Identity, NewDefaultUserSession
    <3>2. Identity(GetSession(id)) = told[id]
      BY Zenon, <3>1, <1>3
    <3> QED
      BY <3>2 DEF Identity
  <2>5. ApprovedStage(r)'
    BY <2>3, <2>4, <1>2, <1>3, <1>4, UsersAssumption DEF ApprovedStage, Changing
  <2>6. CodeStage(r)' /\ TargetStage(r)'
    BY <2>3, <1>4 DEF CodeStage, TargetStage, Targeting, ElevationHandlers
  <2>7. Rightful(N, codes')
    BY <1>2, DefaultRightful
  <2> QED
    BY Zenon, <2>2, <2>3, <2>5, <2>6, <2>7, <1>2, <1>5, <1>6, <1>7, <1>8, MovesOn
<1>10. CASE /\ Begin(r, h, id, "save", [GetSession(id) EXCEPT !.elevation = NoElevation])
            /\ UNCHANGED approved
  <2>1. PICK t : t = [GetSession(id) EXCEPT !.elevation = NoElevation]
    BY Zenon
  <2>2. /\ t \in Sessions /\ Identity(t) = Identity(GetSession(id))
        /\ t.user = GetSession(id).user /\ t.elevation = NoElevation
        /\ t.totp = GetSession(id).totp
    BY <2>1, <1>3, OtherElevation
  <2>3. Begin(r, h, id, "save", t)
    BY <2>1, <1>10
  <2>4. IInv'
    <3>1. Own(t)
      BY <2>2, <1>3 DEF Own, Identity
    <3>2. Fit(h, "save", t, step[r])
      BY <3>1, <1>4 DEF Fit, ForUser, Working
    <3>3. "save" \in PCs
      BY DEF PCs
    <3> QED
      BY Zenon, <3>2, <3>3, <2>2, <2>3, <1>0, <1>2, <1>3, Begins
  <2>5. /\ Goto(r, "save", id, t) /\ op' = [op EXCEPT ![r] = h]
        /\ pc'[r] = "save" /\ op'[r] = h /\ approved'[r] = NoUser
    BY <2>3, <1>0, <1>10 DEF Begin, Goto, TypeOK
  <2>6. ApprovedStage(r)'
    BY <2>5, <1>4 DEF ApprovedStage, Changing
  <2>7. CodeStage(r)' /\ TargetStage(r)'
    BY <2>5, <1>4 DEF CodeStage, TargetStage, Targeting, ElevationHandlers
  <2>8. Rightful(t, codes')
    BY <2>2, <1>2, <1>3 DEF Rightful
  <2> QED
    BY Zenon, <2>4, <2>5, <2>6, <2>7, <2>8, <1>2, <1>5, <1>6, <1>7, <1>8, MovesOn
<1> QED
  BY <1>1, <1>9, <1>10

\* The administration is entered with the session read again.
LEMMA RequireAdministrationInv ==
    ASSUME RInv, NEW r \in Requests, RequireAdministration(r), Carried(r)
    PROVE  RInv'
<1> DEFINE s == GetSession(sid[r])
<1>0. /\ IInv /\ TypeOK /\ TypeOKElevation /\ TypeOKRegistration /\ ApprovedStage(r)
      /\ s \in Sessions /\ Own(s) /\ Rightful(s, codes) /\ sid[r] \in 0 .. last
  BY Before
<1>1. /\ pc[r] = "admin" /\ Goto(r, "load", sid[r], s)
      /\ UNCHANGED <<store, last, issued, told, op, step>> /\ totpHistory' = totpHistory
      /\ UNCHANGED <<now, codes, ip, code, approved>> /\ UNCHANGED devices
      /\ UNCHANGED <<devices, registered>> /\ UNCHANGED <<store, issued, told>>
  BY DEF RequireAdministration, stable, elevation, Carried
<1>2. op[r] \in ElevatedHandlers /\ approved[r] # NoUser
  BY <1>0, <1>1 DEF ApprovedStage
<1>3. op[r] \notin {"firstfactor", "passkeyPOST", "none"} \cup ElevationHandlers
  BY <1>2 DEF ElevatedHandlers, ElevationHandlers
<1>4. IInv'
  <2>1. totpHistory' \subseteq Users \X Steps
    BY <1>0, <1>1 DEF TypeOK
  <2>2. sid[r] \in issued => Identity(s) \in {told[sid[r]], Nobody}
    BY <1>0, ReadsKnown
  <2> HIDE DEF s
  <2> QED
    BY <1>0, <1>1, <1>3, <2>1, <2>2, CopyGoesOn
<1>5. CodesKept /\ RowsKept /\ KidsDistinct' /\ NamesDistinct' /\ SecretsAreOwn'
  BY <1>1, SameCodes, SameRows
<1>6. TypeOKElevation'
  BY <1>0, <1>1 DEF TypeOKElevation, devices
<1>7. TypeOKRegistration' /\ \A o \in Requests : o # r => target'[o] = target[o]
  BY <1>0, <1>1, Carries
<1>8. /\ op' = [op EXCEPT ![r] = op[r]] /\ pc'[r] = "load" /\ op'[r] = op[r]
      /\ sid'[r] = sid[r]
  BY <1>0, <1>1 DEF TypeOK, Goto
<1>9. ApprovedStage(r)'
  BY <1>0, <1>1, <1>2, <1>8 DEF ApprovedStage, Changing
<1>10. CodeStage(r)' /\ TargetStage(r)'
  BY <1>3, <1>8 DEF CodeStage, TargetStage, Targeting, ElevationHandlers
<1>11. Rightful(s, codes')
  BY <1>0, <1>1
<1> QED
  BY Zenon, <1>1, <1>4, <1>5, <1>6, <1>7, <1>8, <1>9, <1>10, <1>11, MovesOn
=============================================================================
