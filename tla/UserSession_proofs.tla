------------------------ MODULE UserSession_proofs -------------------------
(***************************************************************************)
(* Proofs about the sessions, for any number of overlapping requests, of   *)
(* users and of identifiers.  Every handler moves on with a copy of the    *)
(* session (Goto) or answers (Respond); two lemmas say what the copy and   *)
(* the store must be for the invariant to be kept, and each action is      *)
(* shown to meet that.                                                     *)
(***************************************************************************)
EXTENDS UserSession, TLAPS

Nobody == Identity(NewDefaultUserSession)

\* The factors of a session were all proved by its user, and a user has proved one.
Own(s) ==
    /\ \A p \in s.amr : p[1] = s.user
    /\ s.user # NoUser => s.amr # {}

\* An identifier no client was given is in the hands of one request.
FreshExclusive ==
    \A r, o \in Requests : r # o /\ sid[r] = sid[o] => sid[r] \in issued \cup {NoId}

\* What a request works on under an identifier that a client holds is what the client
\* was given, or nothing: only a login has another copy, which it does not save there.
MaySave(h, to) == h = "firstfactor" => to = "save"

CopiesKnown ==
    \A r \in Requests : sid[r] \in issued /\ MaySave(op[r], pc[r]) =>
        Identity(sess[r]) \in {told[sid[r]], Nobody}

\* Where a handler works for the user of its copy.
Working == {"history", "record", "regenerate", "code", "enroll", "configure",
            "credential", "rename", "delete"}

ForUser(h, to) == h = "firstfactor" \/ (to \in Working /\ h # "passkeyPOST")

\* What a handler is about to do fits its copy: it works for a user of the database, a
\* TOTP code has its step, and a passkey login starts from a session without factors.
Fit(h, to, s, k) ==
    /\ Own(s)
    /\ ForUser(h, to) => s.user \in Users
    /\ to \in {"history", "record", "enroll"} => k \in Steps
    /\ to \in {"history", "record", "enroll"} => h # "passkeyPOST"
    /\ h = "passkeyPOST" /\ to = "regenerate" => s.user = NoUser /\ s.amr = {}
    /\ to = "reset" => h = "firstfactor"

CopiesFit == \A r \in Requests : Fit(op[r], pc[r], sess[r], step[r])

StoredOwn == \A i \in Ids : store[i] # NoSession => Own(store[i])

\* The inductive invariant.
IInv ==
    /\ TypeOK
    /\ FreshExclusive
    /\ CopiesKnown
    /\ CopiesFit
    /\ IssuedIdentityFixed
    /\ StoredOwn

----------------------------------------------------------------------------
(* Facts about sessions.                                                   *)

\* The default session.
LEMMA DefaultSession ==
    /\ NewDefaultUserSession \in Sessions
    /\ NewDefaultUserSession # NoSession
    /\ Own(NewDefaultUserSession)
    /\ NewDefaultUserSession.user = NoUser
    /\ NewDefaultUserSession.amr = {}
BY NoSessionAssumption DEF NewDefaultUserSession, Sessions, Own

\* A session without a level has no factors, and one with a level has a user.
LEMMA Anonymous ==
    ASSUME NEW s \in Sessions, Own(s)
    PROVE  /\ IsAnonymous(s) => s.user = NoUser /\ s.amr = {}
           /\ ~IsAnonymous(s) => s.user \in Users
           /\ AuthenticationLevel(s) >= 1 => s.user \in Users
<1>1. s.user \in Users \cup {NoUser} /\ s.amr \subseteq Users \X Factors
  BY DEF Sessions
<1>2. s.user = NoUser => AuthenticationLevel(s) = 0
  BY DEF AuthenticationLevel
<1>3. s.user = NoUser => s.amr = {}
  BY <1>1, UsersAssumption DEF Own
<1>4. ASSUME s.user # NoUser, s.amr # {} PROVE AuthenticationLevel(s) \in {1, 2}
  <2>1. FactorKnowledge(s) \/ FactorPossession(s)
    BY <1>4 DEF FactorKnowledge, FactorPossession
  <2>2. CASE FactorKnowledge(s) /\ FactorPossession(s)
    BY <1>4, <2>2 DEF AuthenticationLevel
  <2>3. CASE ~(FactorKnowledge(s) /\ FactorPossession(s))
    <3>1. FactorKnowledge(s) # FactorPossession(s)
      BY <2>1, <2>3 DEF FactorKnowledge, FactorPossession
    <3> QED
      BY <1>4, <2>3, <3>1 DEF AuthenticationLevel
  <2> QED
    BY <2>2, <2>3
<1>5. s.user # NoUser => s.amr # {}
  BY DEF Own
<1> QED
  BY <1>1, <1>2, <1>3, <1>4, <1>5 DEF IsAnonymous

\* What a request reads under an identifier a client holds.
LEMMA ReadsKnown ==
    ASSUME IInv, NEW id \in issued \cup 0 .. last
    PROVE  /\ GetSession(id) \in Sessions
           /\ Own(GetSession(id))
           /\ id \in issued => Identity(GetSession(id)) \in {told[id], Nobody}
<1>1. id # NoId => id \in Ids
  BY MaxIdsAssumption DEF IInv, TypeOK, Ids, NoId
<1>2. CASE id = NoId \/ store[id] = NoSession
  BY <1>2, DefaultSession DEF GetSession, Nobody
<1>3. CASE ~(id = NoId \/ store[id] = NoSession)
  <2>1. store[id] \in Sessions
    BY <1>1, <1>3 DEF IInv, TypeOK
  <2>2. Own(store[id])
    BY <1>1, <1>3 DEF IInv, StoredOwn
  <2>3. id \in issued => Identity(store[id]) \in {told[id], Nobody}
    BY <1>3 DEF IInv, IssuedIdentityFixed, Nobody
  <2> QED
    BY <1>3, <2>1, <2>2, <2>3 DEF GetSession
<1> QED
  BY <1>2, <1>3

----------------------------------------------------------------------------
(* The two ways a handler goes on.                                         *)

\* A store in which no identifier a client holds has been given another identity.
KeepsIdentities(new) ==
    /\ new \in [Ids -> Sessions \cup {NoSession}]
    /\ \A i \in Ids : new[i] # NoSession => Own(new[i])
    /\ \A i \in issued : new[i] # NoSession => Identity(new[i]) \in {told[i], Nobody}

\* The store as it is.
LEMMA StoreKeeps == IInv => KeepsIdentities(store)
BY DEF IInv, TypeOK, IssuedIdentityFixed, StoredOwn, KeepsIdentities, Nobody

\* The identifier a request goes on with is known to its client or to nobody else.
Exclusive(r, id) ==
    \/ id \in issued \cup {NoId}
    \/ \A o \in Requests : o # r => sid[o] # id

\* A request has its identifier, or a new one, for itself.
LEMMA OwnIdentifier ==
    ASSUME IInv, NEW r \in Requests
    PROVE  Exclusive(r, sid[r]) /\ Exclusive(r, last + 1) /\ Exclusive(r, NoId)
<1>1. Exclusive(r, sid[r])
  BY DEF IInv, FreshExclusive, Exclusive
<1>2. Exclusive(r, last + 1)
  BY MaxIdsAssumption DEF IInv, TypeOK, Exclusive
<1> QED
  BY <1>1, <1>2 DEF Exclusive

\* A handler goes on with a copy that fits, and leaves a store that keeps identities.
LEMMA GoesOn ==
    ASSUME IInv, NEW r \in Requests, NEW to \in PCs, NEW s \in Sessions, NEW id,
           NEW h \in Handlers \cup {"none"}, NEW k \in Steps \cup {NoStep},
           Goto(r, to, id, s),
           op' = [op EXCEPT ![r] = h], step' = [step EXCEPT ![r] = k],
           last' \in last .. MaxIds, id \in 0 .. last', Exclusive(r, id),
           issued' = issued, told' = told,
           totpHistory' \subseteq Users \X Steps,
           KeepsIdentities(store'),
           Fit(h, to, s, k),
           id \in issued /\ MaySave(h, to) => Identity(s) \in {told[id], Nobody}
    PROVE  IInv'
<1> USE DEF Goto
<1>1. TypeOK'
  BY MaxIdsAssumption DEF IInv, TypeOK, KeepsIdentities
<1>2. FreshExclusive'
  BY DEF IInv, TypeOK, FreshExclusive, Exclusive
<1>3. CopiesKnown'
  <2> SUFFICES ASSUME NEW o \in Requests, sid'[o] \in issued, MaySave(op'[o], pc'[o])
               PROVE  Identity(sess'[o]) \in {told[sid'[o]], Nobody}
    BY DEF CopiesKnown, MaySave, Identity, Nobody
  <2>1. CASE o = r
    BY <2>1 DEF IInv, TypeOK
  <2>2. CASE o # r
    <3>1. sid'[o] = sid[o] /\ op'[o] = op[o] /\ pc'[o] = pc[o] /\ sess'[o] = sess[o]
      BY <2>2 DEF IInv, TypeOK
    <3> QED
      BY <3>1 DEF IInv, CopiesKnown
  <2> QED
    BY <2>1, <2>2
<1>4. CopiesFit'
  <2> SUFFICES ASSUME NEW o \in Requests
               PROVE  Fit(op'[o], pc'[o], sess'[o], step'[o])
    BY DEF CopiesFit, Fit, ForUser, Own
  <2>1. CASE o = r
    BY <2>1 DEF IInv, TypeOK
  <2>2. CASE o # r
    <3>1. op'[o] = op[o] /\ pc'[o] = pc[o] /\ sess'[o] = sess[o] /\ step'[o] = step[o]
      BY <2>2 DEF IInv, TypeOK
    <3> QED
      BY <3>1 DEF IInv, CopiesFit
  <2> QED
    BY <2>1, <2>2
<1>5. IssuedIdentityFixed'
  BY DEF KeepsIdentities, IssuedIdentityFixed, Nobody, Identity
<1>6. StoredOwn'
  BY DEF KeepsIdentities, StoredOwn, Own
<1> QED
  BY <1>1, <1>2, <1>3, <1>4, <1>5, <1>6 DEF IInv

\* A handler answers with an identifier, and what is stored under it then is what its
\* client is told.
LEMMA Answers ==
    ASSUME IInv, NEW r \in Requests, NEW id, NEW new,
           Respond(r, id, new),
           last' \in last .. MaxIds, id \in 0 .. last', Exclusive(r, id),
           totpHistory' \subseteq Users \X Steps,
           KeepsIdentities(new)
    PROVE  IInv'
<1> USE DEF Respond, Goto
<1>1. id # NoId => id \in Ids
  BY MaxIdsAssumption DEF IInv, TypeOK, Ids, NoId
<1>2. TypeOK'
  <2>1. told' \in [Ids -> (Users \cup {NoUser}) \X SUBSET (Users \X Factors)]
    <3>1. ASSUME NEW s \in Sessions
          PROVE  Identity(s) \in (Users \cup {NoUser}) \X SUBSET (Users \X Factors)
      BY DEF Sessions, Identity
    <3>2. id # NoId => (IF new[id] = NoSession THEN NewDefaultUserSession ELSE new[id])
                          \in Sessions
      BY <1>1, DefaultSession DEF KeepsIdentities
    <3> QED
      BY <1>1, <3>1, <3>2 DEF IInv, TypeOK
  <2>2. issued' \subseteq 1 .. last'
    BY MaxIdsAssumption DEF IInv, TypeOK, NoId
  <2>3. /\ pc' \in [Requests -> PCs]
        /\ op' \in [Requests -> Handlers \cup {"none"}]
        /\ sid' \in [Requests -> 0 .. last']
        /\ sess' \in [Requests -> Sessions]
        /\ step' \in [Requests -> Steps \cup {NoStep}]
    BY DefaultSession, MaxIdsAssumption DEF IInv, TypeOK, PCs, NoId
  <2>4. last' \in 0 .. MaxIds
    BY MaxIdsAssumption DEF IInv, TypeOK
  <2> QED
    BY <2>1, <2>2, <2>3, <2>4 DEF TypeOK, KeepsIdentities
<1>3. FreshExclusive'
  BY DEF IInv, TypeOK, FreshExclusive
<1>4. ASSUME NEW i \in issued PROVE told'[i] = told[i]
  BY <1>1 DEF IInv, TypeOK, NoId
<1>5. ASSUME NEW o \in Requests, o # r
      PROVE  /\ sid'[o] = sid[o] /\ op'[o] = op[o] /\ pc'[o] = pc[o]
             /\ sess'[o] = sess[o] /\ step'[o] = step[o]
             /\ sid'[o] \in issued' => sid[o] \in issued
  BY <1>5, MaxIdsAssumption DEF IInv, TypeOK, Exclusive, NoId
<1>6. sid'[r] = NoId /\ NoId \notin issued'
  BY MaxIdsAssumption DEF IInv, TypeOK, NoId
<1>7. CopiesKnown'
  <2> SUFFICES ASSUME NEW o \in Requests, sid'[o] \in issued', MaySave(op'[o], pc'[o])
               PROVE  Identity(sess'[o]) \in {told'[sid'[o]], Nobody}
    BY SMTT(30) DEF CopiesKnown, MaySave, Identity, Nobody
  <2> QED
    BY <1>4, <1>5, <1>6 DEF IInv, CopiesKnown
<1>8. CopiesFit'
  <2> SUFFICES ASSUME NEW o \in Requests
               PROVE  Fit(op'[o], pc'[o], sess'[o], step'[o])
    BY DEF CopiesFit, Fit, ForUser, Own
  <2>1. CASE o = r
    <3>1. op'[r] = "none" /\ pc'[r] = "idle" /\ sess'[r] = NewDefaultUserSession
      BY DEF IInv, TypeOK
    <3> QED
      BY <2>1, <3>1, DefaultSession DEF Fit, ForUser, Working
  <2>2. CASE o # r
    BY <1>5, <2>2 DEF IInv, CopiesFit
  <2> QED
    BY <2>1, <2>2
<1>9. IssuedIdentityFixed'
  <2> SUFFICES ASSUME NEW i \in issued', new[i] # NoSession
               PROVE  Identity(new[i]) \in {told'[i], Nobody}
    BY DEF IssuedIdentityFixed, Identity, Nobody
  <2>1. CASE i \in issued
    BY <1>4, <2>1 DEF KeepsIdentities
  <2>2. CASE i \notin issued
    BY <1>1, <2>2 DEF IInv, TypeOK
  <2> QED
    BY <2>1, <2>2
<1>10. StoredOwn'
  BY DEF KeepsIdentities, StoredOwn, Own
<1> QED
  BY <1>2, <1>3, <1>7, <1>8, <1>9, <1>10 DEF IInv

\* A request is admitted.
LEMMA Begins ==
    ASSUME IInv, NEW r \in Requests, NEW h, NEW id, NEW to \in PCs, NEW s \in Sessions,
           Begin(r, h, id, to, s), UNCHANGED <<stable, step>>,
           Fit(h, to, s, step[r]),
           id \in issued /\ MaySave(h, to) => Identity(s) \in {told[id], Nobody}
    PROVE  IInv'
<1> USE DEF Begin, stable
<1>1. step' = [step EXCEPT ![r] = step[r]] /\ step[r] \in Steps \cup {NoStep}
  BY DEF IInv, TypeOK
<1>2. last' \in last .. MaxIds /\ id \in 0 .. last' /\ totpHistory' \subseteq Users \X Steps
  BY MaxIdsAssumption DEF IInv, TypeOK, NoId
<1>3. KeepsIdentities(store')
  BY StoreKeeps
<1> QED
  BY <1>1, <1>2, <1>3, GoesOn DEF Exclusive

\* A request goes on under its identifier; only the store, the generated identifiers and
\* the history of codes may change.
LEMMA Continues ==
    ASSUME IInv, NEW r \in Requests, NEW to \in PCs, NEW id, NEW s \in Sessions,
           NEW k \in Steps \cup {NoStep},
           Goto(r, to, id, s), UNCHANGED <<issued, told, op>>,
           step' = [step EXCEPT ![r] = k],
           last' \in last .. MaxIds, id \in 0 .. last', Exclusive(r, id),
           totpHistory' \subseteq Users \X Steps,
           KeepsIdentities(store'),
           Fit(op[r], to, s, k),
           id \in issued /\ MaySave(op[r], to) => Identity(s) \in {told[id], Nobody}
    PROVE  IInv'
<1>1. op' = [op EXCEPT ![r] = op[r]] /\ op[r] \in Handlers \cup {"none"}
  BY DEF IInv, TypeOK
<1> QED
  BY <1>1, GoesOn

\* A handler reads the session and goes on with a copy that has its identity.
LEMMA Loads ==
    ASSUME IInv, NEW r \in Requests, NEW to \in PCs, NEW h, NEW s \in Sessions,
           NEW k \in Steps \cup {NoStep},
           Load(r, h, to, s), UNCHANGED <<stable, op>>, step' = [step EXCEPT ![r] = k],
           Fit(h, to, s, k),
           Identity(s) = Identity(GetSession(sid[r]))
    PROVE  IInv'
<1> USE DEF Load, stable
<1>1. sid[r] \in 0 .. last /\ last' \in last .. MaxIds /\ totpHistory' \subseteq Users \X Steps
  BY MaxIdsAssumption DEF IInv, TypeOK
<1>2. KeepsIdentities(store')
  BY StoreKeeps
<1>3. sid[r] \in issued => Identity(s) \in {told[sid[r]], Nobody}
  BY <1>1, ReadsKnown
<1> QED
  BY <1>1, <1>2, <1>3, OwnIdentifier, Continues

\* The parts of the state UNCHANGED <<stable, op, step>> leaves alone.
LEMMA SameStep ==
    ASSUME IInv, NEW r \in Requests, step' = step
    PROVE  step' = [step EXCEPT ![r] = step[r]] /\ step[r] \in Steps \cup {NoStep}
BY DEF IInv, TypeOK

----------------------------------------------------------------------------
(* What the handlers store.                                                *)

\* A document is written, or removed.
LEMMA WriteKeeps ==
    ASSUME IInv, NEW id \in Ids, NEW s \in Sessions, Own(s),
           id \in issued => Identity(s) \in {told[id], Nobody}
    PROVE  KeepsIdentities([store EXCEPT ![id] = s])
BY StoreKeeps DEF KeepsIdentities, Ids

\* A document is removed (DestroySession).
LEMMA DestroyKeeps ==
    ASSUME IInv, NEW id \in Ids
    PROVE  KeepsIdentities([store EXCEPT ![id] = NoSession])
BY StoreKeeps DEF KeepsIdentities, Ids

\* A document is moved to an identifier that is new.
LEMMA MoveKeeps ==
    ASSUME IInv, NEW r \in Requests, last < MaxIds
    PROVE  KeepsIdentities(Regenerated(sid[r], last + 1))
<1>1. last + 1 \in Ids /\ last + 1 \notin issued /\ (sid[r] # NoId => sid[r] \in Ids)
  BY MaxIdsAssumption DEF IInv, TypeOK, Ids, NoId
<1>2. CASE sid[r] = NoId \/ store[sid[r]] = NoSession
  BY <1>2, StoreKeeps DEF Regenerated
<1>3. CASE ~(sid[r] = NoId \/ store[sid[r]] = NoSession)
  <2>1. store[sid[r]] \in Sessions /\ Own(store[sid[r]])
    BY <1>1, <1>3, StoreKeeps DEF KeepsIdentities
  <2> DEFINE new == [store EXCEPT ![sid[r]] = NoSession, ![last + 1] = store[sid[r]]]
  <2>2. new \in [Ids -> Sessions \cup {NoSession}]
    BY <1>1, <2>1, StoreKeeps DEF KeepsIdentities
  <2>3. ASSUME NEW i \in Ids PROVE new[i] \in {store[i], NoSession} \/ i = last + 1
    BY <1>1, StoreKeeps DEF KeepsIdentities
  <2>4. new[last + 1] = store[sid[r]]
    BY <1>1, StoreKeeps DEF KeepsIdentities
  <2> HIDE DEF new
  <2>5. issued \subseteq Ids
    BY MaxIdsAssumption DEF IInv, TypeOK, Ids
  <2>6. KeepsIdentities(new)
    BY <1>1, <2>1, <2>2, <2>3, <2>4, <2>5, StoreKeeps DEF KeepsIdentities
  <2> QED
    BY <1>3, <2>6 DEF Regenerated, new
<1> QED
  BY <1>2, <1>3

----------------------------------------------------------------------------
(* First factor.                                                           *)

\* A login has a copy of its own, and does not save it under the old identifier.
LEMMA FirstFactorPasswordPOSTInv ==
    ASSUME IInv, NEW r \in Requests, FirstFactorPasswordPOST(r)
    PROVE  IInv'
<1> PICK id \in issued \cup {NoId}, u \in Users :
        Begin(r, "firstfactor", id, "destroy",
              [NewDefaultUserSession EXCEPT !.user = u, !.amr = {<<u, "pwd">>}])
  BY DEF FirstFactorPasswordPOST
<1> DEFINE s == [NewDefaultUserSession EXCEPT !.user = u, !.amr = {<<u, "pwd">>}]
<1>1. s \in Sessions /\ s.user = u /\ s.amr = {<<u, "pwd">>}
  <2>1. {<<u, "pwd">>} \in SUBSET (Users \X Factors)
    BY DEF Factors
  <2> QED
    BY <2>1, DefaultSession DEF Sessions
<1> HIDE DEF s
<1>2. Fit("firstfactor", "destroy", s, step[r]) /\ ~MaySave("firstfactor", "destroy")
  <2>1. <<u, "pwd">> \in s.amr /\ \A p \in s.amr : p = <<u, "pwd">>
    BY <1>1
  <2>2. Own(s)
    BY <1>1, <2>1 DEF Own
  <2> QED
    BY <1>1, <2>2 DEF Fit, MaySave, ForUser
<1>3. "destroy" \in PCs
  BY DEF PCs
<1> QED
  BY <1>1, <1>2, <1>3, Begins DEF FirstFactorPasswordPOST, s

\* Only the ceremony of a session changes.
LEMMA Ceremony ==
    ASSUME NEW s \in Sessions, Own(s),
           NEW w \in {"none", "assertion", "passkey"} \cup Registrations
    PROVE  LET t == [s EXCEPT !.webauthn = w]
           IN  /\ t \in Sessions /\ Own(t)
               /\ t.user = s.user /\ t.amr = s.amr /\ Identity(t) = Identity(s)
<1> DEFINE t == [s EXCEPT !.webauthn = w]
<1>1. t \in Sessions /\ t.user = s.user /\ t.amr = s.amr
  BY DEF Sessions
<1> HIDE DEF t
<1>2. Own(t) /\ Identity(t) = Identity(s)
  BY <1>1 DEF Own, Identity
<1> QED
  BY <1>1, <1>2 DEF t

\* The login's default session is stored under a new identifier, or over the old one.
LEMMA ResetSessionInv ==
    ASSUME IInv, NEW r \in Requests, ResetSession(r)
    PROVE  IInv'
<1> USE DEF ResetSession
<1>1. step' = [step EXCEPT ![r] = step[r]] /\ step[r] \in Steps \cup {NoStep}
  BY SameStep
<1>2. sess[r] \in Sessions /\ Fit(op[r], "reset", sess[r], step[r])
  BY DEF IInv, TypeOK, CopiesFit
<1>3. totpHistory' \subseteq Users \X Steps
  BY DEF IInv, TypeOK
<1>4. CASE sid[r] = NoId
  <2>1. last + 1 \in Ids /\ last + 1 \notin issued /\ last' \in last .. MaxIds
        /\ last + 1 \in 0 .. last'
    BY <1>4, MaxIdsAssumption DEF IInv, TypeOK, Ids
  <2>2. KeepsIdentities(store')
    BY <1>4, <2>1, WriteKeeps, DefaultSession
  <2>3. Fit(op[r], "save", sess[r], step[r]) /\ "save" \in PCs
    BY <1>2 DEF Fit, ForUser, Working, PCs
  <2>4. Goto(r, "save", last + 1, sess[r]) /\ UNCHANGED <<issued, told, op>>
    BY <1>4
  <2> QED
    BY <1>1, <1>2, <1>3, <2>1, <2>2, <2>3, <2>4, OwnIdentifier, Continues
<1>5. CASE sid[r] # NoId
  <2>1. /\ sid[r] \in Ids /\ last' \in last .. MaxIds /\ sid[r] \in 0 .. last'
    BY <1>5, MaxIdsAssumption DEF IInv, TypeOK, Ids, NoId
  <2>2. KeepsIdentities(store')
    BY <1>5, <2>1, WriteKeeps, DefaultSession DEF Nobody
  <2>3. op[r] = "firstfactor"
    BY <1>2 DEF Fit
  <2>4. Fit(op[r], "regenerate", sess[r], step[r]) /\ "regenerate" \in PCs
    BY <1>2, <2>3 DEF Fit, ForUser, Working, PCs
  <2>5. ~MaySave(op[r], "regenerate")
    BY <2>3 DEF MaySave
  <2>6. Goto(r, "regenerate", sid[r], sess[r]) /\ UNCHANGED <<issued, told, op>>
    BY <1>5
  <2> QED
    BY <1>1, <1>2, <1>3, <2>1, <2>2, <2>4, <2>5, <2>6, OwnIdentifier, Continues
<1> QED
  BY <1>4, <1>5

\* The reset fails, with or without a new default session stored.
LEMMA ResetFailsInv ==
    ASSUME IInv, NEW r \in Requests, ResetFails(r)
    PROVE  IInv'
<1> USE DEF ResetFails
<1>1. totpHistory' \subseteq Users \X Steps
  BY DEF IInv, TypeOK
<1>2. CASE Respond(r, sid[r], store) /\ UNCHANGED last
  <2>1. last' \in last .. MaxIds /\ sid[r] \in 0 .. last'
    BY <1>2, MaxIdsAssumption DEF IInv, TypeOK
  <2> QED
    BY <1>1, <1>2, <2>1, StoreKeeps, OwnIdentifier, Answers
<1>3. CASE /\ last < MaxIds /\ last' = last + 1
           /\ Respond(r, last + 1, [store EXCEPT ![last + 1] = NewDefaultUserSession])
  <2>1. last + 1 \in Ids /\ last + 1 \notin issued /\ last' \in last .. MaxIds
        /\ last + 1 \in 0 .. last'
    BY <1>3, MaxIdsAssumption DEF IInv, TypeOK, Ids
  <2>2. KeepsIdentities([store EXCEPT ![last + 1] = NewDefaultUserSession])
    BY <2>1, WriteKeeps, DefaultSession
  <2> QED
    BY <1>1, <1>3, <2>1, <2>2, OwnIdentifier, Answers
<1> QED
  BY <1>2, <1>3

\* A passkey ceremony is stored in the session that was read.
LEMMA FirstFactorPasskeyGETInv ==
    ASSUME IInv, NEW r \in Requests, FirstFactorPasskeyGET(r)
    PROVE  IInv'
<1> PICK id \in issued \cup {NoId} :
        Begin(r, "passkeyGET", id, "save", [GetSession(id) EXCEPT !.webauthn = "passkey"])
  BY DEF FirstFactorPasskeyGET
<1> DEFINE s == [GetSession(id) EXCEPT !.webauthn = "passkey"]
<1>1. id \in issued \cup 0 .. last
  BY MaxIdsAssumption DEF IInv, TypeOK, NoId
<1>2. s \in Sessions /\ Own(s) /\ Identity(s) = Identity(GetSession(id))
  BY <1>1, ReadsKnown, Ceremony
<1>3. id \in issued => Identity(s) \in {told[id], Nobody}
  BY <1>1, <1>2, ReadsKnown
<1> HIDE DEF s
<1>4. Fit("passkeyGET", "save", s, step[r]) /\ "save" \in PCs
  BY <1>2 DEF Fit, ForUser, Working, PCs
<1> QED
  BY <1>2, <1>3, <1>4, Begins DEF FirstFactorPasskeyGET, s

\* A passkey login goes on only from a session without factors.
LEMMA FirstFactorPasskeyPOSTInv ==
    ASSUME IInv, NEW r \in Requests, FirstFactorPasskeyPOST(r)
    PROVE  IInv'
<1> PICK id \in issued \cup {NoId}, to \in {"save", "regenerate"} :
        /\ IsAnonymous(GetSession(id))
        /\ Begin(r, "passkeyPOST", id, to, [GetSession(id) EXCEPT !.webauthn = "none"])
  BY DEF FirstFactorPasskeyPOST
<1> DEFINE s == [GetSession(id) EXCEPT !.webauthn = "none"]
<1>1. id \in issued \cup 0 .. last
  BY MaxIdsAssumption DEF IInv, TypeOK, NoId
<1>2. /\ s \in Sessions /\ Own(s) /\ Identity(s) = Identity(GetSession(id))
      /\ s.user = NoUser /\ s.amr = {}
  BY <1>1, ReadsKnown, Ceremony, Anonymous
<1>3. id \in issued => Identity(s) \in {told[id], Nobody}
  BY <1>1, <1>2, ReadsKnown
<1> HIDE DEF s
<1>4. Fit("passkeyPOST", to, s, step[r]) /\ to \in PCs
  BY <1>2 DEF Fit, ForUser, PCs
<1> QED
  BY <1>2, <1>3, <1>4, Begins DEF FirstFactorPasskeyPOST, s

----------------------------------------------------------------------------
(* Second factor.                                                          *)

\* A request behind a middleware has read nothing for itself yet.
LEMMA AdmitInv ==
    ASSUME IInv, NEW r \in Requests, NEW handlers, "firstfactor" \notin handlers,
           Admit(r, handlers)
    PROVE  IInv'
<1> PICK h \in handlers, id \in issued : Begin(r, h, id, "load", NewDefaultUserSession)
  BY DEF Admit
<1>1. Fit(h, "load", NewDefaultUserSession, step[r]) /\ "load" \in PCs
  BY DefaultSession DEF Fit, ForUser, Working, PCs
<1> QED
  BY <1>1, DefaultSession, Begins DEF Admit, Nobody

\* A refusal answers with the store as it is.
LEMMA RefuseInv ==
    ASSUME IInv, NEW r \in Requests, Refuse(r)
    PROVE  IInv'
<1> USE DEF Refuse
<1>1. last' \in last .. MaxIds /\ sid[r] \in 0 .. last' /\ totpHistory' \subseteq Users \X Steps
  BY MaxIdsAssumption DEF IInv, TypeOK
<1> QED
  BY <1>1, StoreKeeps, OwnIdentifier, Answers

\* A code of the session's user.
LEMMA TimeBasedOneTimePasswordPOSTInv ==
    ASSUME IInv, NEW r \in Requests, TimeBasedOneTimePasswordPOST(r)
    PROVE  IInv'
<1> USE DEF TimeBasedOneTimePasswordPOST
<1> DEFINE s == GetSession(sid[r])
<1>1. PICK k \in Steps : step' = [step EXCEPT ![r] = k]
  OBVIOUS
<1>2. sid[r] \in 0 .. last
  BY DEF IInv, TypeOK
<1>3. s \in Sessions /\ Own(s) /\ s.user \in Users
  BY <1>2, ReadsKnown, Anonymous
<1>4. Fit("totp", "history", s, k) /\ "history" \in PCs
  BY <1>3 DEF Fit, PCs
<1> QED
  BY <1>1, <1>3, <1>4, Loads

\* The history of codes is asked.
LEMMA ExistsTOTPHistoryInv ==
    ASSUME IInv, NEW r \in Requests, ExistsTOTPHistory(r)
    PROVE  IInv'
<1> USE DEF ExistsTOTPHistory, stable
<1>1. PICK to \in {"regenerate", "record"} : Goto(r, to, sid[r], sess[r])
  OBVIOUS
<1>2. step' = [step EXCEPT ![r] = step[r]] /\ step[r] \in Steps \cup {NoStep}
  BY SameStep
<1>3. /\ sess[r] \in Sessions /\ Fit(op[r], "history", sess[r], step[r])
      /\ sid[r] \in issued /\ MaySave(op[r], "history") =>
            Identity(sess[r]) \in {told[sid[r]], Nobody}
  BY DEF IInv, TypeOK, CopiesFit, CopiesKnown
<1>4. Fit(op[r], to, sess[r], step[r]) /\ to \in PCs
  BY <1>3 DEF Fit, ForUser, Working, PCs
<1>5. MaySave(op[r], to) => MaySave(op[r], "history")
  BY DEF MaySave
<1>6. last' \in last .. MaxIds /\ sid[r] \in 0 .. last' /\ totpHistory' \subseteq Users \X Steps
  BY MaxIdsAssumption DEF IInv, TypeOK
<1> QED
  BY <1>1, <1>2, <1>3, <1>4, <1>5, <1>6, StoreKeeps, OwnIdentifier, Continues

\* The code is recorded as used.
LEMMA SaveTOTPHistoryInv ==
    ASSUME IInv, NEW r \in Requests, SaveTOTPHistory(r)
    PROVE  IInv'
<1> USE DEF SaveTOTPHistory
<1>1. step' = [step EXCEPT ![r] = step[r]] /\ step[r] \in Steps \cup {NoStep}
  BY SameStep
<1>2. /\ sess[r] \in Sessions /\ Fit(op[r], "record", sess[r], step[r])
      /\ sid[r] \in issued /\ MaySave(op[r], "record") =>
            Identity(sess[r]) \in {told[sid[r]], Nobody}
  BY DEF IInv, TypeOK, CopiesFit, CopiesKnown
<1>3. Fit(op[r], "regenerate", sess[r], step[r]) /\ "regenerate" \in PCs
  BY <1>2 DEF Fit, ForUser, Working, PCs
<1>4. MaySave(op[r], "regenerate") => MaySave(op[r], "record")
  BY DEF MaySave
<1>5. sess[r].user \in Users /\ step[r] \in Steps
  BY <1>2 DEF Fit, ForUser, Working
<1>6. last' \in last .. MaxIds /\ sid[r] \in 0 .. last' /\ totpHistory' \subseteq Users \X Steps
  BY <1>5, MaxIdsAssumption DEF IInv, TypeOK
<1> QED
  BY <1>1, <1>2, <1>3, <1>4, <1>6, StoreKeeps, OwnIdentifier, Continues

\* A WebAuthn ceremony begins, in a copy of the session.
LEMMA WebAuthnAssertionGETInv ==
    ASSUME IInv, NEW r \in Requests, WebAuthnAssertionGET(r)
    PROVE  IInv'
<1> USE DEF WebAuthnAssertionGET
<1> DEFINE s == [GetSession(sid[r]) EXCEPT !.webauthn = "assertion"]
<1>1. sid[r] \in 0 .. last
  BY DEF IInv, TypeOK
<1>2. s \in Sessions /\ Own(s) /\ Identity(s) = Identity(GetSession(sid[r]))
  BY <1>1, ReadsKnown, Ceremony
<1>3. step' = [step EXCEPT ![r] = step[r]] /\ step[r] \in Steps \cup {NoStep}
  BY SameStep
<1> HIDE DEF s
<1>4. Fit("webauthnGET", "save", s, step[r]) /\ "save" \in PCs
  BY <1>2 DEF Fit, ForUser, Working, PCs
<1>5. Load(r, "webauthnGET", "save", s) /\ UNCHANGED <<stable, op>>
  BY DEF s
<1> QED
  BY <1>2, <1>3, <1>4, <1>5, Loads

\* A WebAuthn ceremony ends.
LEMMA WebAuthnAssertionPOSTInv ==
    ASSUME IInv, NEW r \in Requests, WebAuthnAssertionPOST(r)
    PROVE  IInv'
<1> USE DEF WebAuthnAssertionPOST
<1> DEFINE s == [GetSession(sid[r]) EXCEPT !.webauthn = "none"]
<1>1. sid[r] \in 0 .. last
  BY DEF IInv, TypeOK
<1>2. /\ s \in Sessions /\ Own(s) /\ Identity(s) = Identity(GetSession(sid[r]))
      /\ s.user \in Users
  BY <1>1, ReadsKnown, Ceremony, Anonymous
<1>3. step' = [step EXCEPT ![r] = step[r]] /\ step[r] \in Steps \cup {NoStep}
  BY SameStep
<1>4. PICK to \in {"save", "regenerate"} : Load(r, "webauthnPOST", to, s)
  OBVIOUS
<1> HIDE DEF s
<1>5. Fit("webauthnPOST", to, s, step[r]) /\ to \in PCs
  BY <1>2 DEF Fit, ForUser, Working, PCs
<1> QED
  BY <1>2, <1>3, <1>4, <1>5, Loads

\* Another factor of the session's user was accepted.
LEMMA FactorAccepted ==
    ASSUME IInv, NEW r \in Requests, NEW h,
           GetSession(sid[r]).user # NoUser,
           Load(r, h, "regenerate", GetSession(sid[r])), UNCHANGED <<stable, op, step>>,
           h # "passkeyPOST"
    PROVE  IInv'
<1> DEFINE s == GetSession(sid[r])
<1>1. sid[r] \in 0 .. last
  BY DEF IInv, TypeOK
<1>2. s \in Sessions /\ Own(s)
  BY <1>1, ReadsKnown
<1>3. s.user \in Users
  BY <1>2 DEF Sessions
<1>4. step' = [step EXCEPT ![r] = step[r]] /\ step[r] \in Steps \cup {NoStep}
  BY SameStep
<1> HIDE DEF s
<1>5. Fit(h, "regenerate", s, step[r]) /\ "regenerate" \in PCs
  BY <1>2, <1>3 DEF Fit, ForUser, PCs
<1> QED
  BY <1>2, <1>4, <1>5, Loads DEF s

----------------------------------------------------------------------------
(* Logout and the authorization endpoints.                                 *)

\* A handler begins with the session it read and no factor to add.
LEMMA BeginsWithRead ==
    ASSUME IInv, NEW r \in Requests, NEW h, NEW id \in issued \cup {NoId},
           NEW to \in {"save", "destroy"},
           h \notin {"firstfactor", "passkeyPOST"},
           Begin(r, h, id, to, GetSession(id)), UNCHANGED <<stable, step>>
    PROVE  IInv'
<1>1. id \in issued \cup 0 .. last
  BY MaxIdsAssumption DEF IInv, TypeOK, NoId
<1>2. /\ GetSession(id) \in Sessions /\ Own(GetSession(id))
      /\ id \in issued => Identity(GetSession(id)) \in {told[id], Nobody}
  BY <1>1, ReadsKnown
<1>3. Fit(h, to, GetSession(id), step[r]) /\ to \in PCs
  BY <1>2 DEF Fit, ForUser, Working, PCs
<1> QED
  BY SMTT(30), <1>2, <1>3, Begins

----------------------------------------------------------------------------
(* Regeneration, save and destruction.                                     *)

\* The factor a handler adds is its user's own.
LEMMA RaisedOwn ==
    ASSUME NEW h, NEW s \in Sessions, NEW u \in Users, Own(s),
           s.user = u \/ (h = "passkeyPOST" /\ s.amr = {})
    PROVE  /\ Raised(h, s, u) \in Sessions /\ Own(Raised(h, s, u))
           /\ Raised(h, s, u).user = u
<1> DEFINE amr == s.amr \cup ({u} \X FactorOf(h))
           w == IF FactorOf(h) = {"webauthn"} THEN "none" ELSE s.webauthn
           t == [s EXCEPT !.user = u, !.amr = amr, !.webauthn = w]
<1>1. FactorOf(h) \subseteq Factors
  BY DEF FactorOf, Factors
<1>2. amr \in SUBSET (Users \X Factors) /\ \A p \in amr : p[1] = u
  BY <1>1 DEF Sessions, Own
<1>6. amr # {}
  <2>1. CASE s.user = u
    BY <2>1, UsersAssumption DEF Own
  <2>2. CASE h = "passkeyPOST"
    <3>1. FactorOf(h) = {"webauthn"}
      BY <2>2 DEF FactorOf
    <3>2. <<u, "webauthn">> \in amr
      BY <3>1
    <3> QED
      BY <3>2
  <2> QED
    BY <2>1, <2>2
<1>3. w \in {"none", "assertion", "passkey"} \cup Registrations
  BY DEF Sessions
<1> HIDE DEF amr, w
<1>4. t \in Sessions /\ t.user = u /\ t.amr = amr
  BY <1>2, <1>3 DEF Sessions
<1> HIDE DEF t
<1>5. Own(t)
  BY <1>2, <1>4, <1>6 DEF Own
<1> QED
  BY <1>4, <1>5 DEF t, amr, w, Raised

\* The raised copy goes on under an identifier nobody has.
LEMMA RegenerateSessionInv ==
    ASSUME IInv, NEW r \in Requests, RegenerateSession(r)
    PROVE  IInv'
<1> USE DEF RegenerateSession
<1>1. PICK u \in (IF op[r] = "passkeyPOST" THEN Users ELSE {sess[r].user}) :
         Goto(r, Afterwards(op[r]), last + 1, Raised(op[r], sess[r], u))
  OBVIOUS
<1>2. step' = [step EXCEPT ![r] = step[r]] /\ step[r] \in Steps \cup {NoStep}
  BY SameStep
<1>3. sess[r] \in Sessions /\ Fit(op[r], "regenerate", sess[r], step[r])
  BY DEF IInv, TypeOK, CopiesFit
<1>4. u \in Users /\ (sess[r].user = u \/ (op[r] = "passkeyPOST" /\ sess[r].amr = {}))
  BY <1>3 DEF Fit, ForUser, Working
<1> DEFINE t == Raised(op[r], sess[r], u)
<1>5. t \in Sessions /\ Own(t) /\ t.user = u
  BY <1>3, <1>4, RaisedOwn DEF Fit
<1> HIDE DEF t
<1>6. Fit(op[r], Afterwards(op[r]), t, step[r]) /\ Afterwards(op[r]) \in PCs
  BY <1>4, <1>5 DEF Fit, Afterwards, PCs
<1>7. /\ last' \in last .. MaxIds /\ last + 1 \in 0 .. last' /\ last + 1 \notin issued
      /\ totpHistory' \subseteq Users \X Steps
  BY MaxIdsAssumption DEF IInv, TypeOK
<1> QED
  BY <1>1, <1>2, <1>5, <1>6, <1>7, MoveKeeps, OwnIdentifier, Continues DEF t

\* The copy that was read goes on under an identifier nobody has.
LEMMA UpdateExpirationFailsInv ==
    ASSUME IInv, NEW r \in Requests, UpdateExpirationFails(r)
    PROVE  IInv'
<1> USE DEF UpdateExpirationFails
<1>1. step' = [step EXCEPT ![r] = step[r]] /\ step[r] \in Steps \cup {NoStep}
  BY SameStep
<1>2. sess[r] \in Sessions /\ Fit(op[r], "regenerate", sess[r], step[r])
  BY DEF IInv, TypeOK, CopiesFit
<1>3. Fit(op[r], "save", sess[r], step[r]) /\ "save" \in PCs
  BY <1>2 DEF Fit, ForUser, Working, PCs
<1>4. /\ last' \in last .. MaxIds /\ last + 1 \in 0 .. last' /\ last + 1 \notin issued
      /\ totpHistory' \subseteq Users \X Steps
  BY MaxIdsAssumption DEF IInv, TypeOK
<1> QED
  BY <1>1, <1>2, <1>3, <1>4, MoveKeeps, OwnIdentifier, Continues

\* Without a new identifier the handler gives up, or saves the copy it read.
LEMMA RegenerateFailsInv ==
    ASSUME IInv, NEW r \in Requests, RegenerateFails(r)
    PROVE  IInv'
<1> USE DEF RegenerateFails
<1>1. last' \in last .. MaxIds /\ sid[r] \in 0 .. last' /\ totpHistory' \subseteq Users \X Steps
  BY MaxIdsAssumption DEF IInv, TypeOK
<1>2. CASE op[r] \in Deferred
  <2>1. Goto(r, "save", sid[r], sess[r]) /\ UNCHANGED <<store, issued, told, op, step>>
    BY <1>2
  <2>2. step' = [step EXCEPT ![r] = step[r]] /\ step[r] \in Steps \cup {NoStep}
    BY <2>1, SameStep
  <2>3. /\ sess[r] \in Sessions /\ Fit(op[r], "regenerate", sess[r], step[r])
        /\ sid[r] \in issued /\ MaySave(op[r], "regenerate") =>
              Identity(sess[r]) \in {told[sid[r]], Nobody}
    BY DEF IInv, TypeOK, CopiesFit, CopiesKnown
  <2>4. MaySave(op[r], "regenerate") /\ "save" \in PCs
    BY <1>2 DEF MaySave, Deferred, PCs
  <2>5. Fit(op[r], "save", sess[r], step[r])
    BY <2>3 DEF Fit, ForUser, Working
  <2> QED
    BY <1>1, <2>1, <2>2, <2>3, <2>4, <2>5, StoreKeeps, OwnIdentifier, Continues
<1>3. CASE op[r] \notin Deferred
  BY <1>1, <1>3, StoreKeeps, OwnIdentifier, Answers
<1> QED
  BY <1>2, <1>3

\* A save under an identifier a client holds leaves its identity as it is.
LEMMA SaveSessionInv ==
    ASSUME IInv, NEW r \in Requests, SaveSession(r)
    PROVE  IInv'
<1> USE DEF SaveSession
<1>1. /\ sess[r] \in Sessions /\ Own(sess[r])
      /\ sid[r] \in issued => Identity(sess[r]) \in {told[sid[r]], Nobody}
  BY DEF IInv, TypeOK, CopiesFit, CopiesKnown, Fit, MaySave
<1>2. totpHistory' \subseteq Users \X Steps
  BY DEF IInv, TypeOK
<1>3. CASE sid[r] # NoId
  <2>1. sid[r] \in Ids /\ last' \in last .. MaxIds /\ sid[r] \in 0 .. last'
    BY <1>3, MaxIdsAssumption DEF IInv, TypeOK, Ids, NoId
  <2> QED
    BY <1>1, <1>2, <1>3, <2>1, WriteKeeps, OwnIdentifier, Answers
<1>4. CASE sid[r] = NoId
  <2>1. last + 1 \in Ids /\ last + 1 \notin issued /\ last' \in last .. MaxIds
        /\ last + 1 \in 0 .. last'
    BY <1>4, MaxIdsAssumption DEF IInv, TypeOK, Ids
  <2> QED
    BY <1>1, <1>2, <1>4, <2>1, WriteKeeps, OwnIdentifier, Answers
<1> QED
  BY <1>3, <1>4

\* The store refuses the save; the request is answered and the store kept.
LEMMA SaveFailsInv ==
    ASSUME IInv, NEW r \in Requests, SaveFails(r)
    PROVE  IInv'
<1> USE DEF SaveFails
<1>1. last' \in last .. MaxIds /\ sid[r] \in 0 .. last' /\ totpHistory' \subseteq Users \X Steps
  BY MaxIdsAssumption DEF IInv, TypeOK
<1>2. Exclusive(r, sid[r]) /\ KeepsIdentities(store)
  BY StoreKeeps, OwnIdentifier, Zenon
<1>3. Respond(r, sid[r], store)
  OBVIOUS
<1> HIDE DEF SaveFails
<1> QED
  BY <1>1, <1>2, <1>3, Answers, ZenonT(30)

\* A session is removed, and the handler goes on without an identifier, or could not be
\* removed, and the handler goes on under the old one.
LEMMA DestroyInv ==
    ASSUME IInv, NEW r \in Requests, DestroySession(r) \/ DestroyFails(r)
    PROVE  IInv'
<1> DEFINE new == IF sid[r] = NoId THEN store ELSE [store EXCEPT ![sid[r]] = NoSession]
<1>1. KeepsIdentities(new) /\ KeepsIdentities(store)
  <2>1. sid[r] # NoId => sid[r] \in Ids
    BY MaxIdsAssumption DEF IInv, TypeOK, Ids, NoId
  <2> QED
    BY <2>1, StoreKeeps, DestroyKeeps
<1> HIDE DEF new
<1>2. /\ last' \in last .. MaxIds /\ sid[r] \in 0 .. last' /\ NoId \in 0 .. last'
      /\ totpHistory' \subseteq Users \X Steps
  BY MaxIdsAssumption DEF IInv, TypeOK, DestroySession, DestroyFails, NoId
<1>3. sess[r] \in Sessions /\ Fit(op[r], "destroy", sess[r], step[r])
  BY DEF IInv, TypeOK, CopiesFit, DestroySession, DestroyFails
<1>4. "reset" \in PCs /\ "save" \in PCs /\ NoId \notin issued
  BY DEF PCs, IInv, TypeOK, NoId
<1>5. PICK id \in {NoId, sid[r]} :
         /\ store' \in {new, store}
         /\ \/ /\ op[r] = "firstfactor" /\ Goto(r, "reset", id, sess[r])
               /\ UNCHANGED <<issued, told, op, step>>
            \/ /\ op[r] = "authz" /\ Goto(r, "save", id, NewDefaultUserSession)
               /\ UNCHANGED <<issued, told, op, step>>
            \/ Respond(r, id, store')
  BY DEF DestroySession, DestroyFails, new, Respond
<1>6. KeepsIdentities(store') /\ Exclusive(r, id) /\ id \in 0 .. last'
  BY <1>1, <1>2, <1>5, OwnIdentifier
<1>7. CASE op[r] = "firstfactor" /\ Goto(r, "reset", id, sess[r])
           /\ UNCHANGED <<issued, told, op, step>>
  <2>1. step' = [step EXCEPT ![r] = step[r]] /\ step[r] \in Steps \cup {NoStep}
    BY <1>7, SameStep
  <2>2. Fit(op[r], "reset", sess[r], step[r]) /\ ~MaySave(op[r], "reset")
    BY <1>3, <1>7 DEF Fit, ForUser, Working, MaySave
  <2> QED
    BY <1>2, <1>3, <1>4, <1>6, <1>7, <2>1, <2>2, Continues
<1>8. CASE op[r] = "authz" /\ Goto(r, "save", id, NewDefaultUserSession)
           /\ UNCHANGED <<issued, told, op, step>>
  <2>1. step' = [step EXCEPT ![r] = step[r]] /\ step[r] \in Steps \cup {NoStep}
    BY <1>8, SameStep
  <2>2. Fit(op[r], "save", NewDefaultUserSession, step[r])
    BY <1>8, DefaultSession DEF Fit, ForUser, Working
  <2> QED
    BY <1>2, <1>4, <1>6, <1>8, <2>1, <2>2, DefaultSession, Continues DEF Nobody
<1>9. CASE Respond(r, id, store')
  BY <1>2, <1>6, <1>9, Answers
<1> QED
  BY <1>5, <1>7, <1>8, <1>9

----------------------------------------------------------------------------
(* The invariant and what it gives.                                        *)

\* A store that clients hold sessions of, as a restarted provider finds it.
LEMMA InitFromInv ==
    ASSUME NEW n \in 0 .. MaxIds, NEW stored \in [1 .. n -> Sessions],
           \A i \in 1 .. n : Own(stored[i]),
           InitFrom(n, stored)
    PROVE  IInv
<1> USE MaxIdsAssumption DEF InitFrom
<1>1. ASSUME NEW s \in Sessions
      PROVE  Identity(s) \in (Users \cup {NoUser}) \X SUBSET (Users \X Factors)
  BY DEF Sessions, Identity
<1>2. TypeOK
  <2>1. store \in [Ids -> Sessions \cup {NoSession}]
    BY DEF Ids
  <2>2. told \in [Ids -> (Users \cup {NoUser}) \X SUBSET (Users \X Factors)]
    BY <1>1, DefaultSession DEF Ids
  <2> QED
    BY <2>1, <2>2, DefaultSession DEF TypeOK, PCs, NoId
<1>3. FreshExclusive
  BY DEF FreshExclusive
<1>4. CopiesKnown
  BY DEF CopiesKnown, Nobody
<1>5. CopiesFit
  BY DefaultSession DEF CopiesFit, Fit, ForUser, Working
<1>6. \A i \in Ids : i \in issued => told[i] = Identity(stored[i]) /\ store[i] = stored[i]
  BY DEF Ids
<1>7. IssuedIdentityFixed
  BY <1>6 DEF IssuedIdentityFixed, Ids
<1>8. StoredOwn
  <2>1. ASSUME NEW i \in Ids, store[i] # NoSession PROVE i \in 1 .. n /\ store[i] = stored[i]
    BY <2>1 DEF Ids
  <2> QED
    BY <2>1 DEF StoredOwn
<1> QED
  BY <1>2, <1>3, <1>4, <1>5, <1>7, <1>8 DEF IInv

\* Every step of a request.
LEMMA StepInv ==
    ASSUME IInv, NEW r \in Requests, Step(r)
    PROVE  IInv'
<1>1. CASE FirstFactorPasswordPOST(r)
  BY <1>1, FirstFactorPasswordPOSTInv
<1>2. CASE ResetSession(r)
  BY <1>2, ResetSessionInv
<1>3. CASE ResetFails(r)
  BY <1>3, ResetFailsInv
<1>4. CASE FirstFactorPasskeyGET(r)
  BY <1>4, FirstFactorPasskeyGETInv
<1>5. CASE FirstFactorPasskeyPOST(r)
  BY <1>5, FirstFactorPasskeyPOSTInv
<1>6. CASE Require1FA(r)
  BY <1>6, AdmitInv DEF Require1FA, Behind1FA
<1>7. CASE Refuse(r)
  BY <1>7, RefuseInv
<1>8. CASE TimeBasedOneTimePasswordPOST(r)
  BY <1>8, TimeBasedOneTimePasswordPOSTInv
<1>9. CASE ExistsTOTPHistory(r)
  BY <1>9, ExistsTOTPHistoryInv
<1>10. CASE SaveTOTPHistory(r)
  BY <1>10, SaveTOTPHistoryInv
<1>11. CASE WebAuthnAssertionGET(r)
  BY <1>11, WebAuthnAssertionGETInv
<1>12. CASE WebAuthnAssertionPOST(r)
  BY <1>12, WebAuthnAssertionPOSTInv
<1>13. CASE DuoPOST(r) \/ SecondFactorPasswordPOST(r) \/ FirstFactorReauthenticatePOST(r)
  BY <1>13, FactorAccepted DEF DuoPOST, SecondFactorPasswordPOST, FirstFactorReauthenticatePOST
<1>14. CASE LogoutPOST(r)
  BY <1>14, BeginsWithRead DEF LogoutPOST
<1>15. CASE CookieSessionAuthnStrategyGet(r)
  BY <1>15, BeginsWithRead DEF CookieSessionAuthnStrategyGet
<1>16. CASE RegenerateSession(r)
  BY <1>16, RegenerateSessionInv
<1>17. CASE UpdateExpirationFails(r)
  BY <1>17, UpdateExpirationFailsInv
<1>18. CASE RegenerateFails(r)
  BY <1>18, RegenerateFailsInv
<1>19. CASE SaveSession(r)
  BY <1>19, SaveSessionInv
<1>20. CASE SaveFails(r)
  BY <1>20, SaveFailsInv
<1>21. CASE DestroySession(r) \/ DestroyFails(r)
  BY <1>21, DestroyInv
<1> QED
  BY <1>1, <1>2, <1>3, <1>4, <1>5, <1>6, <1>7, <1>8, <1>9, <1>10, <1>11, <1>12, <1>13,
     <1>14, <1>15, <1>16, <1>17, <1>18, <1>19, <1>20, <1>21 DEF Step

\* A step that leaves the sessions alone.
LEMMA StutterInv == IInv /\ UNCHANGED vars => IInv'
<1> SUFFICES ASSUME IInv, UNCHANGED vars PROVE IInv'
  OBVIOUS
<1>1. /\ UNCHANGED <<store, last, issued, told, totpHistory>>
      /\ UNCHANGED <<pc, op, sid, sess, step>>
  BY DEF vars, request
<1>2. TypeOK' /\ FreshExclusive'
  BY <1>1 DEF IInv, TypeOK, FreshExclusive
<1>3. CopiesKnown'
  BY SMTT(30), <1>1 DEF IInv, CopiesKnown, MaySave, Identity, Nobody
<1>4. CopiesFit'
  BY <1>1 DEF IInv, CopiesFit, Fit, ForUser, Own, MaySave
<1>5. IssuedIdentityFixed' /\ StoredOwn'
  BY <1>1 DEF IInv, IssuedIdentityFixed, StoredOwn, Identity, Nobody, Own
<1> QED
  BY <1>2, <1>3, <1>4, <1>5 DEF IInv

\* The invariant holds in every state of the portal.
THEOREM Invariance == Spec => []IInv
<1>1. Init => IInv
  <2> SUFFICES ASSUME Init PROVE IInv
    OBVIOUS
  <2>1. 0 \in 0 .. MaxIds /\ <<>> \in [1 .. 0 -> Sessions] /\ 1 .. 0 = {}
    BY MaxIdsAssumption
  <2> QED
    BY <2>1, InitFromInv DEF Init
<1>2. IInv /\ [Next]_vars => IInv'
  BY StepInv, StutterInv DEF Next
<1> QED
  BY <1>1, <1>2, PTL DEF Spec

\* The variables keep their types, and identifiers are generated in order.
THEOREM TypeCorrect == Spec => []TypeOK
BY Invariance, PTL DEF IInv

\* An identifier that a client holds never comes to stand for another user or for other
\* factors than it was given with: handlers that log in or raise a session do so under a
\* new identifier, and no save of an older copy undoes that.
THEOREM IdentitiesFixed == Spec => []IssuedIdentityFixed
BY Invariance, PTL DEF IInv

\* No login, second factor or save mixes the factors of two users in one session.
THEOREM FactorsOwn == Spec => []FactorsBelongToUser
<1>1. IInv => FactorsBelongToUser
  BY DEF IInv, StoredOwn, Own, FactorsBelongToUser
<1> QED
  BY <1>1, Invariance, PTL

\* A TOTP code is good for one sign-in, however requests that present it interleave: the
\* request that goes on is the one whose insert into totp_history succeeded.
THEOREM CodesUsedOnce == Spec => CodesSpentOnce
<1> DEFINE Spent == \A r \in Requests :
                      /\ ~DisableReuseSecurityPolicy
                      /\ pc[r] \in {"history", "record"}
                      /\ pc'[r] = "regenerate"
                      => /\ <<sess[r].user, step[r]>> \notin totpHistory
                         /\ <<sess[r].user, step[r]>> \in totpHistory'
<1>1. TypeOK /\ [Next]_vars => [Spent]_vars
  <2> SUFFICES ASSUME TypeOK, NEW o \in Requests, Step(o), NEW r \in Requests,
                      ~DisableReuseSecurityPolicy,
                      pc[r] \in {"history", "record"}, pc'[r] = "regenerate"
               PROVE  /\ <<sess[r].user, step[r]>> \notin totpHistory
                      /\ <<sess[r].user, step[r]>> \in totpHistory'
    BY DEF Next
  <2>1. PICK to \in PCs : pc' = [pc EXCEPT ![o] = to]
    BY DEF Step, Goto, Respond, Begin, Load, Admit, FirstFactorPasswordPOST, ResetSession,
           ResetFails, FirstFactorPasskeyGET, FirstFactorPasskeyPOST, Require1FA, Refuse,
           TimeBasedOneTimePasswordPOST, ExistsTOTPHistory, SaveTOTPHistory,
           WebAuthnAssertionGET, WebAuthnAssertionPOST, DuoPOST, SecondFactorPasswordPOST,
           FirstFactorReauthenticatePOST, LogoutPOST, CookieSessionAuthnStrategyGet,
           RegenerateSession, UpdateExpirationFails, RegenerateFails, SaveSession, SaveFails,
           DestroySession, DestroyFails, Afterwards, PCs
  <2>2. o = r
    BY <2>1 DEF TypeOK
  <2>3. ExistsTOTPHistory(r) \/ SaveTOTPHistory(r)
    BY <2>2 DEF TypeOK, Step, Goto, Respond, Begin, Load, Admit, FirstFactorPasswordPOST,
           ResetSession, ResetFails, FirstFactorPasskeyGET, FirstFactorPasskeyPOST,
           Require1FA, Refuse,
           TimeBasedOneTimePasswordPOST, WebAuthnAssertionGET, WebAuthnAssertionPOST,
           DuoPOST, SecondFactorPasswordPOST, FirstFactorReauthenticatePOST, LogoutPOST,
           CookieSessionAuthnStrategyGet,
           RegenerateSession, UpdateExpirationFails, RegenerateFails, SaveSession, SaveFails,
           DestroySession, DestroyFails
  <2>4. CASE ExistsTOTPHistory(r)
    BY <2>4 DEF ExistsTOTPHistory, Goto, TypeOK
  <2>5. CASE SaveTOTPHistory(r)
    BY <2>5 DEF SaveTOTPHistory
  <2> QED
    BY <2>3, <2>4, <2>5
<1> QED
  BY <1>1, TypeCorrect, PTL DEF Spec, CodesSpentOnce
=============================================================================
