--------------------------- MODULE PasswordReset ---------------------------
(***************************************************************************)
(* Password reset links: issuing them (middlewares/identity_verification), *)
(* spending them (handlers/handler_reset_password), the administrator's    *)
(* reset and account operations (handlers/handler_admin), over the         *)
(* identity_verification table (storage/sql_provider) and the user         *)
(* provider.                                                               *)
(*                                                                         *)
(* Handlers of different requests interleave between any two calls they    *)
(* make to the storage or user provider.  The table is modelled with the   *)
(* row locks an open transaction holds on the rows it updated: another     *)
(* update of such a row waits.                                             *)
(***************************************************************************)
EXTENDS Naturals, FiniteSets, TLC, TLAPS

CONSTANTS Requests,   \* requests being served at the same time
          Users,      \* canonical usernames
          Links,      \* identity verification JTIs
          NoUser, NoLink,
          MaxFaults   \* bound: failed commits and crashes in one behaviour

ASSUME NoUserAssumption == NoUser \notin Users
ASSUME NoLinkAssumption == NoLink \notin Links
ASSUME MaxFaultsAssumption == MaxFaults \in Nat

VARIABLES
    acct,    \* user provider: status of each account
    owner,   \* committed rows of identity_verification: each link's user,
             \* NoUser before it is issued,
    spent,   \* [consumed, revoked]: the links marked so,
    expired, \* the links past their expiry
    mailed,  \* links whose email was delivered: only these can be used
    pc,      \* next call each request makes
    req,     \* each request's user and link; known is a history field:
             \* the user's links that existed when the request started
    tx,      \* rows each request's open transaction consumed and revoked
    writes,  \* history: password writes made through each link
    lost,    \* history: of these, the ones whose transaction did not commit
    faults   \* failed commits and crashes so far

table == <<owner, spent, expired>>
history == <<writes, lost, faults>>
vars == <<acct, table, mailed, pc, req, tx, history>>

Statuses == {"absent", "enabled", "disabled"}

\* Rows marked consumed and rows marked revoked: in the table, or by an open
\* transaction.
Marks == [consumed : SUBSET Links, revoked : SUBSET Links]

NoMarks == [consumed |-> {}, revoked |-> {}]

Idle == [user |-> NoUser, jti |-> NoLink, known |-> {}]

PCs == {"idle", "issue", "delete", "consume", "revoke", "update", "commit",
        "adminRevoke", "adminUpdate", "adminCommit"}

\* A request between consuming its link and the end of its transaction.
LinkOpen == {"revoke", "update", "commit"}

Init ==
    /\ acct \in [Users -> {"absent", "enabled"}]
    /\ owner = [j \in Links |-> NoUser]
    /\ spent = NoMarks
    /\ expired = {}
    /\ mailed = {}
    /\ pc = [r \in Requests |-> "idle"]
    /\ req = [r \in Requests |-> Idle]
    /\ tx = [r \in Requests |-> NoMarks]
    /\ writes = [j \in Links |-> 0]
    /\ lost = [j \in Links |-> 0]
    /\ faults = 0

-----------------------------------------------------------------------------
(* The storage provider.                                                   *)

Locked(r) == tx[r].consumed \cup tx[r].revoked

LockedByOther(r, j) == \E s \in Requests \ {r} : j \in Locked(s)

\* The WHERE clause shared by ConsumeIdentityVerification (consumed and
\* revoked are null) and RevokeIdentityVerifications.
Active(j) ==
    owner[j] # NoUser /\ j \notin spent.consumed /\ j \notin spent.revoked

\* FindIdentityVerification: neither revoked, nor consumed, nor expired.
FindIdentityVerification(j) == Active(j) /\ j \notin expired

\* Rows RevokeIdentityVerifications updates, in the transaction of r.
Outstanding(r, u) ==
    {j \in Links : Active(j) /\ owner[j] = u /\ j \notin Locked(r)}

\* The transaction of r ends and its updates become visible.
Apply(r) == [consumed |-> spent.consumed \cup tx[r].consumed,
             revoked |-> spent.revoked \cup tx[r].revoked]

IssuedTo(u) == {j \in Links : owner[j] = u}

\* The handler of r starts to work on user u and link j.
Begin(r, at, u, j) ==
    /\ pc[r] = "idle"
    /\ pc' = [pc EXCEPT ![r] = at]
    /\ req' = [req EXCEPT ![r] = [user |-> u, jti |-> j, known |-> IssuedTo(u)]]

\* The handler of r returns.
Return(r) ==
    /\ pc' = [pc EXCEPT ![r] = "idle"]
    /\ req' = [req EXCEPT ![r] = Idle]
    /\ tx' = [tx EXCEPT ![r] = NoMarks]

-----------------------------------------------------------------------------
(* Issuing a link.                                                         *)

\* uuid.NewRandom
Fresh(j) == owner[j] = NoUser /\ \A r \in Requests : req[r].jti # j

\* IdentityVerificationStart: identityRetrieverFromStorage finds the account,
\* which must not be disabled.
IdentityVerificationStart(r, u, j) ==
    /\ acct[u] = "enabled"
    /\ Fresh(j)
    /\ Begin(r, "issue", u, j)
    /\ UNCHANGED <<acct, table, mailed, tx, history>>

\* adminUserPasswordLinkPUT: the account must exist.
AdminUserPasswordLinkPUT(r, u, j) ==
    /\ acct[u] # "absent"
    /\ Fresh(j)
    /\ Begin(r, "issue", u, j)
    /\ UNCHANGED <<acct, table, mailed, tx, history>>

\* sendIdentityVerificationEmail: the row is saved, then the mail is sent;
\* a failed delivery leaves the row behind.
SendIdentityVerificationEmail(r) ==
    LET j == req[r].jti IN
    /\ pc[r] = "issue"
    /\ owner' = [owner EXCEPT ![j] = req[r].user]
    /\ mailed' \in {mailed, mailed \cup {j}}
    /\ Return(r)
    /\ UNCHANGED <<acct, spent, expired, history>>

\* The clock passes a link's expiry.
Expire(j) ==
    /\ owner[j] # NoUser /\ j \notin expired
    /\ expired' = expired \cup {j}
    /\ UNCHANGED <<acct, owner, spent, mailed, pc, req, tx, history>>

-----------------------------------------------------------------------------
(* ResetPasswordPOST: validate, begin, consume, revoke, update, commit.     *)

PostValidate(r, j) ==
    /\ j \in mailed
    /\ FindIdentityVerification(j)
    /\ Begin(r, "consume", owner[j], j)
    /\ UNCHANGED <<acct, table, mailed, tx, history>>

\* Mutant: the update does not look at the marks of the row.
PostConsume_Unconditional(r) ==
    /\ pc[r] = "consume"
    /\ ~LockedByOther(r, req[r].jti)
    /\ pc' = [pc EXCEPT ![r] = "revoke"]
    /\ tx' = [tx EXCEPT ![r].consumed = {req[r].jti}]
    /\ UNCHANGED <<acct, table, mailed, req, history>>

\* Mutant: no row matched, and the handler keeps trying.
PostConsume_Retry(r) ==
    /\ pc[r] = "consume"
    /\ ~LockedByOther(r, req[r].jti)
    /\ Active(req[r].jti)
    /\ pc' = [pc EXCEPT ![r] = "revoke"]
    /\ tx' = [tx EXCEPT ![r].consumed = {req[r].jti}]
    /\ UNCHANGED <<acct, table, mailed, req, history>>

\* The conditional update.  No row matches when the link was spent or revoked
\* since it was validated: the handler returns.
PostConsume(r) ==
    LET j == req[r].jti IN
    /\ pc[r] = "consume"
    /\ ~LockedByOther(r, j)
    /\ IF Active(j)
       THEN /\ pc' = [pc EXCEPT ![r] = "revoke"]
            /\ tx' = [tx EXCEPT ![r].consumed = {j}]
            /\ UNCHANGED req
       ELSE Return(r)
    /\ UNCHANGED <<acct, table, mailed, history>>

\* Mutant: rows that another reset holds are skipped.
PostRevoke_NoWait(r) ==
    /\ pc[r] = "revoke"
    /\ pc' = [pc EXCEPT ![r] = "update"]
    /\ tx' = [tx EXCEPT ![r].revoked =
                {j \in Outstanding(r, req[r].user) : ~LockedByOther(r, j)}]
    /\ UNCHANGED <<acct, table, mailed, req, history>>

PostRevoke(r) ==
    LET rows == Outstanding(r, req[r].user) IN
    /\ pc[r] = "revoke"
    /\ \A j \in rows : ~LockedByOther(r, j)
    /\ pc' = [pc EXCEPT ![r] = "update"]
    /\ tx' = [tx EXCEPT ![r].revoked = rows]
    /\ UNCHANGED <<acct, table, mailed, req, history>>

\* UserProvider.UpdatePassword refuses absent and disabled accounts; the
\* deferred rollback then releases the link.
PostUpdatePassword(r) ==
    /\ pc[r] = "update"
    /\ IF acct[req[r].user] = "enabled"
       THEN /\ writes' = [writes EXCEPT ![req[r].jti] = @ + 1]
            /\ pc' = [pc EXCEPT ![r] = "commit"]
            /\ UNCHANGED <<req, tx>>
       ELSE /\ Return(r)
            /\ UNCHANGED writes
    /\ UNCHANGED <<acct, table, mailed, lost, faults>>

\* UpdatePassword reports an error although the password was changed: the file
\* was renamed into place and syncing its directory failed, or the answer of
\* the LDAP server was lost.  The link is released.
PostUpdateUncertain(r) ==
    /\ pc[r] = "update"
    /\ acct[req[r].user] = "enabled"
    /\ faults < MaxFaults
    /\ faults' = faults + 1
    /\ writes' = [writes EXCEPT ![req[r].jti] = @ + 1]
    /\ lost' = [lost EXCEPT ![req[r].jti] = @ + 1]
    /\ Return(r)
    /\ UNCHANGED <<acct, table, mailed>>

PostCommit(r) ==
    /\ pc[r] = "commit"
    /\ spent' = Apply(r)
    /\ Return(r)
    /\ UNCHANGED <<acct, owner, expired, mailed, history>>

\* Commit reports an error after the password was changed: the transaction
\* may or may not have been applied.
PostCommitFails(r) ==
    /\ pc[r] = "commit"
    /\ faults < MaxFaults
    /\ faults' = faults + 1
    /\ \/ spent' = spent /\ lost' = [lost EXCEPT ![req[r].jti] = @ + 1]
       \/ spent' = Apply(r) /\ lost' = lost
    /\ Return(r)
    /\ UNCHANGED <<acct, owner, expired, mailed, writes>>

\* ResetPasswordDELETE: the JWT must not have expired nor the row be revoked.
ResetPasswordDELETE(r, j) ==
    /\ j \in mailed
    /\ j \notin expired /\ j \notin spent.revoked
    /\ Begin(r, "delete", owner[j], j)
    /\ UNCHANGED <<acct, table, mailed, tx, history>>

\* RevokeIdentityVerification, outside a transaction: the update waits for one
\* that holds the row, and matches a consumed row too.
DeleteRevoke(r) ==
    LET j == req[r].jti IN
    /\ pc[r] = "delete"
    /\ ~LockedByOther(r, j)
    /\ spent' = [consumed |-> spent.consumed, revoked |-> spent.revoked \cup {j}]
    /\ Return(r)
    /\ UNCHANGED <<acct, owner, expired, mailed, history>>

-----------------------------------------------------------------------------
(* AdminUserPasswordPUT: look up, begin, revoke, set the password, commit. *)

AdminUserPasswordPUT(r, u) ==
    /\ acct[u] # "absent"
    /\ Begin(r, "adminRevoke", u, NoLink)
    /\ UNCHANGED <<acct, table, mailed, tx, history>>

\* Mutant: rows that another reset holds are skipped.
AdminRevoke_NoWait(r) ==
    /\ pc[r] = "adminRevoke"
    /\ pc' = [pc EXCEPT ![r] = "adminUpdate"]
    /\ tx' = [tx EXCEPT ![r].revoked =
                {j \in Outstanding(r, req[r].user) : ~LockedByOther(r, j)}]
    /\ UNCHANGED <<acct, table, mailed, req, history>>

AdminRevoke(r) ==
    LET rows == Outstanding(r, req[r].user) IN
    /\ pc[r] = "adminRevoke"
    /\ \A j \in rows : ~LockedByOther(r, j)
    /\ pc' = [pc EXCEPT ![r] = "adminUpdate"]
    /\ tx' = [tx EXCEPT ![r].revoked = rows]
    /\ UNCHANGED <<acct, table, mailed, req, history>>

AdminResetUserPassword(r) ==
    /\ pc[r] = "adminUpdate"
    /\ IF acct[req[r].user] # "absent"
       THEN /\ pc' = [pc EXCEPT ![r] = "adminCommit"]
            /\ UNCHANGED <<req, tx>>
       ELSE Return(r)
    /\ UNCHANGED <<acct, table, mailed, history>>

AdminCommit(r) ==
    /\ pc[r] = "adminCommit"
    /\ spent' = Apply(r)
    /\ Return(r)
    /\ UNCHANGED <<acct, owner, expired, mailed, history>>

AdminCommitFails(r) ==
    /\ pc[r] = "adminCommit"
    /\ faults < MaxFaults
    /\ faults' = faults + 1
    /\ spent' \in {spent, Apply(r)}
    /\ Return(r)
    /\ UNCHANGED <<acct, owner, expired, mailed, writes, lost>>

\* AdminUsersPOST: the account is created and, with a setup link or a
\* notification requested, the onboarding link is sent.
AdminUsersPOST(r, u, status) ==
    /\ acct[u] = "absent"
    /\ status \in {"enabled", "disabled"}
    /\ acct' = [acct EXCEPT ![u] = status]
    /\ \/ \E j \in Links : Fresh(j) /\ Begin(r, "issue", u, j)
       \/ pc[r] = "idle" /\ UNCHANGED <<pc, req>>
    /\ UNCHANGED <<table, mailed, tx, history>>

\* AdminUserPATCH, as far as links are concerned: enable or disable.
AdminUserPATCH(u, status) ==
    /\ acct[u] # "absent"
    /\ status \in {"enabled", "disabled"} \ {acct[u]}
    /\ acct' = [acct EXCEPT ![u] = status]
    /\ UNCHANGED <<table, mailed, pc, req, tx, history>>

\* AdminUserDELETE leaves the rows of the account's links alone.
AdminUserDELETE(u) ==
    /\ acct[u] # "absent"
    /\ acct' = [acct EXCEPT ![u] = "absent"]
    /\ UNCHANGED <<table, mailed, pc, req, tx, history>>

-----------------------------------------------------------------------------
(* Failures.                                                               *)

\* A statement or the user provider fails before the password is changed:
\* the handler answers with an error and its transaction is rolled back.
RequestFails(r) ==
    /\ pc[r] \in {"issue", "delete", "consume", "revoke", "update",
                  "adminRevoke", "adminUpdate"}
    /\ Return(r)
    /\ UNCHANGED <<acct, table, mailed, history>>

\* The process stops: open transactions are rolled back by the database.
Crash ==
    /\ faults < MaxFaults
    /\ faults' = faults + 1
    /\ \E r \in Requests : pc[r] # "idle"
    /\ lost' = [j \in Links |->
                 IF \E r \in Requests : pc[r] = "commit" /\ req[r].jti = j
                 THEN lost[j] + 1 ELSE lost[j]]
    /\ pc' = [r \in Requests |-> "idle"]
    /\ req' = [r \in Requests |-> Idle]
    /\ tx' = [r \in Requests |-> NoMarks]
    /\ UNCHANGED <<acct, table, mailed, writes>>

\* r waits for a row lock that s holds.
WaitsFor(r, s) ==
    /\ r # s
    /\ \/ pc[r] \in {"consume", "delete"} /\ req[r].jti \in Locked(s)
       \/ /\ pc[r] \in {"revoke", "adminRevoke"}
          /\ Outstanding(r, req[r].user) \cap Locked(s) # {}

\* The database aborts one transaction of a set that waits on itself.
DeadlockVictim(r) ==
    /\ \E S \in SUBSET Requests :
          r \in S /\ \A a \in S : \E b \in S : WaitsFor(a, b)
    /\ Return(r)
    /\ UNCHANGED <<acct, table, mailed, history>>

\* The calls a request in progress makes, and the database's answers.
Progress(r) ==
    \/ SendIdentityVerificationEmail(r) \/ DeleteRevoke(r)
    \/ PostConsume(r) \/ PostRevoke(r)
    \/ PostUpdatePassword(r) \/ PostUpdateUncertain(r)
    \/ PostCommit(r) \/ PostCommitFails(r)
    \/ AdminRevoke(r) \/ AdminResetUserPassword(r)
    \/ AdminCommit(r) \/ AdminCommitFails(r)
    \/ DeadlockVictim(r)

Next ==
    \/ \E r \in Requests :
          \/ Progress(r)
          \/ RequestFails(r)
          \/ \E u \in Users, j \in Links : \/ IdentityVerificationStart(r, u, j)
                                          \/ AdminUserPasswordLinkPUT(r, u, j)
          \/ \E u \in Users : AdminUserPasswordPUT(r, u)
          \/ \E u \in Users, status \in Statuses : AdminUsersPOST(r, u, status)
          \/ \E j \in Links : PostValidate(r, j) \/ ResetPasswordDELETE(r, j)
    \/ \E j \in Links : Expire(j)
    \/ \E u \in Users, status \in Statuses : AdminUserPATCH(u, status)
    \/ \E u \in Users : AdminUserDELETE(u)
    \/ Crash

Spec == Init /\ [][Next]_vars

\* Every handler in progress keeps running, and a waiter on a row lock is
\* served in turn.
FairSpec == Spec /\ \A r \in Requests : SF_vars(Progress(r))

-----------------------------------------------------------------------------
(* Properties.                                                             *)

\* Every variable keeps its type.
TypeOK ==
    /\ acct \in [Users -> Statuses]
    /\ owner \in [Links -> Users \cup {NoUser}]
    /\ spent \in Marks
    /\ expired \in SUBSET Links
    /\ mailed \in SUBSET Links
    /\ pc \in [Requests -> PCs]
    /\ req \in [Requests -> [user : Users \cup {NoUser},
                             jti : Links \cup {NoLink},
                             known : SUBSET Links]]
    /\ tx \in [Requests -> Marks]
    /\ writes \in [Links -> Nat]
    /\ lost \in [Links -> Nat]
    /\ faults \in 0..MaxFaults

\* Two ResetPasswordPOSTs for the same account, through the same link or
\* through two of its links, are never both past the revocation: the password
\* is set and the links are invalidated by one of them at a time.
ResetsExclusive ==
    \A r, s \in Requests :
        r # s /\ pc[r] \in {"update", "commit"} /\ pc[s] \in {"update", "commit"}
        => req[r].user # req[s].user

\* A link is marked consumed only when a password was written through it: a
\* refused or failed submission never costs the user the link.
ConsumedOnlyAfterWrite == \A j \in spent.consumed : writes[j] > 0

\* A link changes the password once, and once more for every reset that
\* changed the password without committing its transaction.
WritesBounded == \A j \in Links : writes[j] <= 1 + lost[j]

\* No password is written through a link that a finished reset or a
\* ResetPasswordDELETE has invalidated, even by a form opened before.
SpentLinksStaySpent ==
    [][\A j \in Links : writes'[j] > writes[j] => Active(j)]_vars

\* A reset that reports success has invalidated every link the account had
\* when the new password was submitted.
KnownLinksInvalidated ==
    [][\A r \in Requests : PostCommit(r) \/ AdminCommit(r) =>
          req[r].known \subseteq spent'.consumed \cup spent'.revoked]_vars

\* Requests, and links, are interchangeable.
Symmetry == Permutations(Requests) \cup Permutations(Links)

----------------------------------------------------------------------------
(* Proofs, for any sets of requests, users and links and any number of     *)
(* faults.                                                                 *)

\* A request past its start works on a known user, and one that issues or
\* spends one on a known link.
Bound ==
    \A r \in Requests :
        /\ pc[r] # "idle" => req[r].user \in Users
        /\ pc[r] \in {"issue", "delete", "consume"} \cup LinkOpen =>
             req[r].jti \in Links

\* Only links that were issued were mailed.
MailedIssued == \A j \in mailed : owner[j] # NoUser

\* Applying a transaction keeps the marks well formed.
LEMMA ApplyType ==
    ASSUME TypeOK, NEW r \in Requests
    PROVE  Apply(r) \in Marks
BY DEF TypeOK, Apply, Marks

\* The type of what a returning handler leaves.
LEMMA ReturnType ==
    ASSUME TypeOK, Bound, NEW r \in Requests, Return(r)
    PROVE  /\ pc' \in [Requests -> PCs]
           /\ req' \in [Requests -> [user : Users \cup {NoUser},
                                    jti : Links \cup {NoLink},
                                    known : SUBSET Links]]
           /\ tx' \in [Requests -> Marks]
           /\ Bound'
<1>1. Idle \in [user : Users \cup {NoUser}, jti : Links \cup {NoLink},
               known : SUBSET Links]
  BY DEF Idle
<1>2. NoMarks \in Marks
  BY DEF NoMarks, Marks
<1> QED
  BY <1>1, <1>2 DEF TypeOK, Bound, Return, PCs, LinkOpen

\* The type of what a starting handler sets.
LEMMA BeginType ==
    ASSUME TypeOK, Bound, NEW r \in Requests, NEW u \in Users,
           NEW j \in Links \cup {NoLink},
           NEW at \in {"issue", "delete", "consume", "adminRevoke"},
           at # "adminRevoke" => j \in Links,
           Begin(r, at, u, j)
    PROVE  /\ pc' \in [Requests -> PCs]
           /\ req' \in [Requests -> [user : Users \cup {NoUser},
                                    jti : Links \cup {NoLink},
                                    known : SUBSET Links]]
           /\ Bound'
<1>1. [user |-> u, jti |-> j, known |-> IssuedTo(u)]
        \in [user : Users \cup {NoUser}, jti : Links \cup {NoLink},
             known : SUBSET Links]
  BY DEF IssuedTo
<1> QED
  BY <1>1 DEF TypeOK, Bound, Begin, PCs, LinkOpen

\* Every variable of PasswordReset keeps its type.
LEMMA TypeStep ==
    ASSUME TypeOK, Bound, MailedIssued, [Next]_vars
    PROVE  TypeOK' /\ Bound'
<1> USE DEF TypeOK, table, history
<1>1. ASSUME NEW r \in Requests, SendIdentityVerificationEmail(r)
      PROVE  TypeOK' /\ Bound'
  <2>1. req[r].jti \in Links /\ req[r].user \in Users
    BY <1>1 DEF SendIdentityVerificationEmail, Bound
  <2> QED
    BY <1>1, <2>1, ReturnType DEF SendIdentityVerificationEmail
<1>2. ASSUME NEW r \in Requests, PostConsume(r)
      PROVE  TypeOK' /\ Bound'
  <2>1. req[r].jti \in Links
    BY <1>2 DEF PostConsume, Bound
  <2>2. CASE Active(req[r].jti)
    <3>1. /\ pc' = [pc EXCEPT ![r] = "revoke"]
          /\ tx' = [tx EXCEPT ![r].consumed = {req[r].jti}]
          /\ UNCHANGED <<acct, table, mailed, req, history>>
      BY <1>2, <2>2 DEF PostConsume
    <3>2. TypeOK'
      BY SMTT(30), <2>1, <3>1 DEF TypeOK, PCs, Marks
    <3>3. pc[r] = "consume"
      BY <1>2 DEF PostConsume
    <3> QED
      BY <2>1, <3>1, <3>2, <3>3 DEF TypeOK, Bound, LinkOpen
  <2>3. CASE ~Active(req[r].jti)
    BY <1>2, <2>3, ReturnType DEF PostConsume
  <2> QED BY <2>2, <2>3
<1>3. ASSUME NEW r \in Requests, PostRevoke(r)
      PROVE  TypeOK' /\ Bound'
  BY <1>3 DEF PostRevoke, Outstanding, PCs, Marks, Bound, LinkOpen
<1>4. ASSUME NEW r \in Requests, PostUpdatePassword(r)
      PROVE  TypeOK' /\ Bound'
  <2>1. req[r].jti \in Links
    BY <1>4 DEF PostUpdatePassword, Bound, LinkOpen
  <2>2. CASE acct[req[r].user] = "enabled"
    <3>1. /\ pc[r] = "update"
          /\ pc' = [pc EXCEPT ![r] = "commit"]
          /\ writes' = [writes EXCEPT ![req[r].jti] = @ + 1]
          /\ UNCHANGED <<acct, table, mailed, req, tx, lost, faults>>
      BY <1>4, <2>2 DEF PostUpdatePassword
    <3> QED
      BY <2>1, <3>1 DEF PCs, Bound, LinkOpen
  <2>3. CASE acct[req[r].user] # "enabled"
    BY <1>4, <2>3, ReturnType DEF PostUpdatePassword
  <2> QED BY <2>2, <2>3
<1>5. ASSUME NEW r \in Requests, PostCommit(r) \/ AdminCommit(r)
      PROVE  TypeOK' /\ Bound'
  BY <1>5, ApplyType, ReturnType DEF PostCommit, AdminCommit
<1>6. ASSUME NEW r \in Requests, PostCommitFails(r)
      PROVE  TypeOK' /\ Bound'
  <2>1. req[r].jti \in Links
    BY <1>6 DEF PostCommitFails, Bound, LinkOpen
  <2> QED
    BY SMTT(30), <1>6, <2>1, ApplyType, ReturnType, MaxFaultsAssumption DEF PostCommitFails
<1>19. ASSUME NEW r \in Requests, PostUpdateUncertain(r)
       PROVE  TypeOK' /\ Bound'
  <2>1. req[r].jti \in Links
    BY <1>19 DEF PostUpdateUncertain, Bound, LinkOpen
  <2> QED
    BY <1>19, <2>1, ReturnType, MaxFaultsAssumption DEF PostUpdateUncertain
<1>20. ASSUME NEW r \in Requests, DeleteRevoke(r)
       PROVE  TypeOK' /\ Bound'
  <2>1. req[r].jti \in Links
    BY <1>20 DEF DeleteRevoke, Bound, LinkOpen
  <2> QED
    BY <1>20, <2>1, ReturnType DEF DeleteRevoke, Marks
<1>7. ASSUME NEW r \in Requests, AdminCommitFails(r)
      PROVE  TypeOK' /\ Bound'
  BY <1>7, ApplyType, ReturnType, MaxFaultsAssumption DEF AdminCommitFails
<1>8. ASSUME NEW r \in Requests, AdminRevoke(r)
      PROVE  TypeOK' /\ Bound'
  BY SMTT(30), <1>8 DEF AdminRevoke, Outstanding, PCs, Marks, Bound, LinkOpen
<1>9. ASSUME NEW r \in Requests, AdminResetUserPassword(r)
      PROVE  TypeOK' /\ Bound'
  <2>1. CASE acct[req[r].user] # "absent"
    BY <1>9, <2>1 DEF AdminResetUserPassword, PCs, Bound, LinkOpen
  <2>2. CASE acct[req[r].user] = "absent"
    BY <1>9, <2>2, ReturnType DEF AdminResetUserPassword
  <2> QED BY <2>1, <2>2
<1>10. ASSUME NEW r \in Requests, DeadlockVictim(r) \/ RequestFails(r)
       PROVE  TypeOK' /\ Bound'
  BY <1>10, ReturnType DEF DeadlockVictim, RequestFails
<1>11. ASSUME NEW r \in Requests, NEW u \in Users, NEW j \in Links,
              IdentityVerificationStart(r, u, j)
                \/ AdminUserPasswordLinkPUT(r, u, j)
       PROVE  TypeOK' /\ Bound'
  BY <1>11, BeginType DEF IdentityVerificationStart, AdminUserPasswordLinkPUT
<1>12. ASSUME NEW r \in Requests, NEW u \in Users, AdminUserPasswordPUT(r, u)
       PROVE  TypeOK' /\ Bound'
  BY <1>12, BeginType DEF AdminUserPasswordPUT
<1>13. ASSUME NEW r \in Requests, NEW u \in Users, NEW t \in Statuses,
              AdminUsersPOST(r, u, t)
       PROVE  TypeOK' /\ Bound'
  <2>1. acct' \in [Users -> Statuses]
    BY <1>13 DEF AdminUsersPOST
  <2>2. CASE UNCHANGED <<pc, req>>
    BY <1>13, <2>1, <2>2 DEF AdminUsersPOST, Bound
  <2>3. ASSUME NEW j \in Links, Begin(r, "issue", u, j)
        PROVE  TypeOK' /\ Bound'
    BY <1>13, <2>1, <2>3, BeginType DEF AdminUsersPOST
  <2> QED
    BY <1>13, <2>2, <2>3 DEF AdminUsersPOST
<1>14. ASSUME NEW r \in Requests, NEW j \in Links,
              PostValidate(r, j) \/ ResetPasswordDELETE(r, j)
       PROVE  TypeOK' /\ Bound'
  <2>1. owner[j] \in Users
    BY <1>14 DEF PostValidate, FindIdentityVerification, Active,
       ResetPasswordDELETE, MailedIssued
  <2> QED
    BY <1>14, <2>1, BeginType DEF PostValidate, ResetPasswordDELETE
<1>15. ASSUME NEW j \in Links, Expire(j)
       PROVE  TypeOK' /\ Bound'
  BY <1>15 DEF Expire, Bound
<1>16. ASSUME NEW u \in Users, NEW t \in Statuses,
              AdminUserPATCH(u, t) \/ AdminUserDELETE(u)
       PROVE  TypeOK' /\ Bound'
  BY <1>16 DEF AdminUserPATCH, AdminUserDELETE, Statuses, Bound
<1>17. CASE Crash
  <2>1. pc' \in [Requests -> PCs] /\ Bound'
    BY <1>17 DEF Crash, PCs, Bound, LinkOpen
  <2>2. req' \in [Requests -> [user : Users \cup {NoUser},
                              jti : Links \cup {NoLink},
                              known : SUBSET Links]]
    BY <1>17 DEF Crash, Idle
  <2>3. tx' \in [Requests -> Marks]
    BY <1>17 DEF Crash, NoMarks, Marks
  <2>4. lost' \in [Links -> Nat] /\ faults' \in 0..MaxFaults
    BY <1>17, MaxFaultsAssumption DEF Crash
  <2> QED
    BY <1>17, <2>1, <2>2, <2>3, <2>4 DEF Crash
<1>18. CASE UNCHANGED vars
  BY <1>18 DEF vars, Bound
<1> QED
  BY <1>1, <1>2, <1>3, <1>4, <1>5, <1>6, <1>7, <1>8, <1>9, <1>10, <1>11,
     <1>12, <1>13, <1>14, <1>15, <1>16, <1>17, <1>18, <1>19, <1>20
  DEF Next, Progress

\* A link is mailed when it is issued and is never un-issued.
LEMMA MailedStep ==
    ASSUME TypeOK, Bound, MailedIssued, [Next]_vars
    PROVE  MailedIssued'
<1> USE DEF MailedIssued, table, history
<1>1. ASSUME NEW r \in Requests, SendIdentityVerificationEmail(r)
      PROVE  MailedIssued'
  BY <1>1, NoUserAssumption DEF SendIdentityVerificationEmail, TypeOK, Bound
<1>2. CASE UNCHANGED <<owner, mailed>>
  BY <1>2
<1>3. ASSUME NEW r \in Requests, Progress(r) \/ RequestFails(r)
      PROVE  SendIdentityVerificationEmail(r) \/ UNCHANGED <<owner, mailed>>
  BY <1>3 DEF Progress, RequestFails, DeleteRevoke, PostConsume, PostRevoke,
     PostUpdatePassword, PostUpdateUncertain, PostCommit, PostCommitFails,
     AdminRevoke, AdminResetUserPassword, AdminCommit, AdminCommitFails,
     DeadlockVictim
<1>4. CASE Crash \/ UNCHANGED vars
  BY <1>2, <1>4 DEF Crash, vars
<1> QED
  BY <1>1, <1>2, <1>3, <1>4
  DEF Next, IdentityVerificationStart, AdminUserPasswordLinkPUT,
      AdminUserPasswordPUT, AdminUsersPOST, PostValidate, ResetPasswordDELETE,
      Expire, AdminUserPATCH, AdminUserDELETE

-----------------------------------------------------------------------------
(* The row locks.                                                          *)

\* A transaction holds no row before its first update.
NoLocks ==
    \A r \in Requests :
        pc[r] \in {"idle", "issue", "delete", "consume", "adminRevoke"} =>
            tx[r] = NoMarks

\* What a transaction has consumed is its own link, which belongs to the user
\* it works for.
OwnLink ==
    \A r \in Requests :
        /\ pc[r] \in LinkOpen => tx[r].consumed = {req[r].jti}
        /\ pc[r] \notin LinkOpen => tx[r].consumed = {}
        /\ pc[r] = "revoke" => tx[r].revoked = {}
        /\ pc[r] \in {"consume"} \cup LinkOpen => owner[req[r].jti] = req[r].user

\* Locked rows are still active in the table.
LockedActive == \A r \in Requests : \A j \in Locked(r) : Active(j)

\* No row is locked twice.
LocksDisjoint ==
    \A r, s \in Requests : r # s => Locked(r) \cap Locked(s) = {}

\* A link being issued is in no other request's hands.
IssueFresh ==
    \A r \in Requests : pc[r] = "issue" =>
        /\ owner[req[r].jti] = NoUser
        /\ \A s \in Requests : pc[s] = "issue" /\ s # r => req[s].jti # req[r].jti

Locks == NoLocks /\ OwnLink /\ LockedActive /\ LocksDisjoint /\ IssueFresh

\* A handler that returns releases its locks and nothing else.
LEMMA ReturnLocks ==
    ASSUME TypeOK, Bound, Locks, NEW r \in Requests, Return(r),
           UNCHANGED owner,
           UNCHANGED spent \/ spent' = Apply(r)
    PROVE  Locks'
<1>1. /\ Locked(r)' = {}
      /\ \A s \in Requests \ {r} : /\ Locked(s)' = Locked(s)
                                   /\ tx'[s] = tx[s]
                                   /\ pc'[s] = pc[s]
                                   /\ req'[s] = req[s]
      /\ pc'[r] = "idle" /\ tx'[r] = NoMarks
  BY DEF Return, Locked, NoMarks, TypeOK
<1>2. NoLocks' /\ IssueFresh'
  BY <1>1 DEF Locks, NoLocks, IssueFresh
<1>3. OwnLink'
  BY <1>1 DEF Locks, OwnLink, LinkOpen, NoMarks
<1>4. LocksDisjoint'
  BY <1>1 DEF Locks, LocksDisjoint
<1>5. ASSUME NEW s \in Requests, NEW j \in Locked(s)'
      PROVE  Active(j)'
  <2>1. s # r /\ j \in Locked(s) /\ Active(j) /\ j \notin Locked(r)
    BY <1>1, <1>5 DEF Locks, LockedActive, LocksDisjoint
  <2> QED
    BY <2>1 DEF Active, Apply, Locked
<1> QED
  BY <1>2, <1>3, <1>4, <1>5 DEF Locks, LockedActive

\* A handler that starts takes no lock.
LEMMA BeginLocks ==
    ASSUME TypeOK, Bound, Locks, NEW r \in Requests, NEW u \in Users,
           NEW j \in Links \cup {NoLink},
           NEW at \in {"issue", "delete", "consume", "adminRevoke"},
           at = "issue" => Fresh(j),
           at = "consume" => owner[j] = u,
           Begin(r, at, u, j), UNCHANGED <<table, tx>>
    PROVE  Locks'
<1>1. /\ \A s \in Requests : Locked(s)' = Locked(s) /\ tx'[s] = tx[s]
      /\ \A s \in Requests \ {r} : pc'[s] = pc[s] /\ req'[s] = req[s]
      /\ pc[r] = "idle" /\ pc'[r] = at
      /\ req'[r].jti = j /\ req'[r].user = u
      /\ owner' = owner /\ spent' = spent
  BY DEF Begin, Locked, TypeOK, table
<1>2. NoLocks'
  BY <1>1 DEF Locks, NoLocks
<1>3. OwnLink'
  BY SMTT(30), <1>1 DEF Locks, OwnLink, LinkOpen
<1>4. LocksDisjoint' /\ LockedActive'
  BY <1>1 DEF Locks, LocksDisjoint, LockedActive, Active
<1>5. IssueFresh'
  BY <1>1 DEF Locks, IssueFresh, Fresh
<1> QED
  BY <1>2, <1>3, <1>4, <1>5 DEF Locks

\* The two revocations lock rows that nobody else holds.
LEMMA RevokeLocks ==
    ASSUME TypeOK, Bound, Locks, NEW r \in Requests,
           PostRevoke(r) \/ AdminRevoke(r)
    PROVE  Locks'
<1> DEFINE rows == Outstanding(r, req[r].user)
<1>1. /\ \A s \in Requests \ {r} : /\ Locked(s)' = Locked(s)
                                   /\ tx'[s] = tx[s] /\ pc'[s] = pc[s]
      /\ tx'[r].consumed = tx[r].consumed /\ tx'[r].revoked = rows
      /\ owner' = owner /\ spent' = spent /\ req' = req
      /\ \/ pc[r] = "revoke" /\ pc'[r] = "update"
         \/ pc[r] = "adminRevoke" /\ pc'[r] = "adminUpdate"
  BY DEF PostRevoke, AdminRevoke, Locked, TypeOK, Marks, table
<1>2. /\ Locked(r)' \subseteq Locked(r) \cup rows
      /\ \A j \in rows : Active(j) /\ ~LockedByOther(r, j)
  BY <1>1 DEF Locked, Outstanding, PostRevoke, AdminRevoke
<1>3. NoLocks' /\ IssueFresh'
  BY <1>1 DEF Locks, NoLocks, IssueFresh
<1>4. OwnLink'
  BY <1>1 DEF Locks, OwnLink, LinkOpen
<1>5. LockedActive'
  BY <1>1, <1>2 DEF Locks, LockedActive, Active
<1>6. LocksDisjoint'
  BY <1>1, <1>2 DEF Locks, LocksDisjoint, LockedByOther
<1> QED
  BY <1>3, <1>4, <1>5, <1>6 DEF Locks

\* Every step keeps the locks consistent.
LEMMA LocksStep ==
    ASSUME TypeOK, Bound, MailedIssued, Locks, [Next]_vars
    PROVE  Locks'
<1> USE DEF table, history
<1>1. ASSUME NEW r \in Requests, SendIdentityVerificationEmail(r)
      PROVE  Locks'
  <2> DEFINE j == req[r].jti
  <2>1. /\ Locked(r)' = {}
        /\ \A s \in Requests \ {r} : /\ Locked(s)' = Locked(s)
                                     /\ tx'[s] = tx[s] /\ pc'[s] = pc[s]
                                     /\ req'[s] = req[s]
        /\ pc[r] = "issue" /\ pc'[r] = "idle" /\ tx'[r] = NoMarks
        /\ spent' = spent
        /\ j \in Links /\ owner[j] = NoUser
        /\ \A k \in Links \ {j} : owner'[k] = owner[k]
    BY <1>1 DEF SendIdentityVerificationEmail, Return, Locked, NoMarks, TypeOK,
                Locks, IssueFresh, Bound
  <2>2. NoLocks'
    BY <2>1 DEF Locks, NoLocks
  <2>3. OwnLink'
    BY <2>1, NoUserAssumption
    DEF Locks, OwnLink, LinkOpen, NoMarks, Bound
  <2>4. LockedActive'
    <3>1. \A s \in Requests : Locked(s) \subseteq Links
      BY DEF Locked, TypeOK, Marks
    <3> QED
      BY <2>1, <3>1 DEF Locks, LockedActive, Active
  <2>5. LocksDisjoint'
    BY <2>1 DEF Locks, LocksDisjoint
  <2>6. IssueFresh'
    BY <2>1 DEF Locks, IssueFresh, Bound
  <2> QED BY <2>2, <2>3, <2>4, <2>5, <2>6 DEF Locks
<1>2. ASSUME NEW r \in Requests, PostConsume(r)
      PROVE  Locks'
  <2>1. CASE ~Active(req[r].jti)
    BY <1>2, <2>1, ReturnLocks DEF PostConsume
  <2>2. CASE Active(req[r].jti)
    <3>1. /\ Locked(r)' = {req[r].jti} /\ tx'[r].consumed = {req[r].jti}
          /\ tx'[r].revoked = {}
          /\ \A s \in Requests \ {r} : /\ Locked(s)' = Locked(s)
                                       /\ tx'[s] = tx[s] /\ pc'[s] = pc[s]
          /\ pc[r] = "consume" /\ pc'[r] = "revoke"
          /\ owner' = owner /\ spent' = spent /\ req' = req
          /\ ~LockedByOther(r, req[r].jti)
      <4>1. tx[r] = NoMarks
        BY <1>2 DEF PostConsume, Locks, NoLocks
      <4> QED
        BY SMTT(30), <1>2, <2>2, <4>1 DEF PostConsume, Locked, NoMarks, TypeOK, Marks
    <3>2. NoLocks' /\ IssueFresh'
      BY <3>1 DEF Locks, NoLocks, IssueFresh
    <3>3. OwnLink'
      BY <3>1 DEF Locks, OwnLink, LinkOpen
    <3>4. LockedActive' /\ LocksDisjoint'
      BY <2>2, <3>1 DEF Locks, LockedActive, LocksDisjoint, Active, LockedByOther
    <3> QED BY <3>2, <3>3, <3>4 DEF Locks
  <2> QED BY <2>1, <2>2
<1>3. ASSUME NEW r \in Requests, PostRevoke(r) \/ AdminRevoke(r)
      PROVE  Locks'
  BY <1>3, RevokeLocks
<1>4. ASSUME NEW r \in Requests,
             PostUpdatePassword(r) \/ AdminResetUserPassword(r)
      PROVE  Locks'
  <2>1. CASE Return(r)
    BY <1>4, <2>1, ReturnLocks DEF PostUpdatePassword, AdminResetUserPassword
  <2>2. CASE ~Return(r)
    <3>1. /\ \/ pc[r] = "update" /\ pc'[r] = "commit"
             \/ pc[r] = "adminUpdate" /\ pc'[r] = "adminCommit"
          /\ \A s \in Requests \ {r} : pc'[s] = pc[s]
          /\ owner' = owner /\ spent' = spent /\ req' = req /\ tx' = tx
      BY <1>4, <2>2 DEF PostUpdatePassword, AdminResetUserPassword, TypeOK
    <3>2. NoLocks' /\ IssueFresh'
      BY <3>1 DEF Locks, NoLocks, IssueFresh
    <3>3. OwnLink'
      BY <3>1 DEF Locks, OwnLink, LinkOpen
    <3>4. LockedActive' /\ LocksDisjoint'
      BY <3>1 DEF Locks, LockedActive, LocksDisjoint, Active, Locked
    <3> QED BY <3>2, <3>3, <3>4 DEF Locks
  <2> QED BY <2>1, <2>2
<1>5. ASSUME NEW r \in Requests,
             \/ PostCommit(r) \/ AdminCommit(r)
             \/ PostCommitFails(r) \/ AdminCommitFails(r)
             \/ DeadlockVictim(r) \/ RequestFails(r) \/ PostUpdateUncertain(r)
      PROVE  Locks'
  BY <1>5, ReturnLocks DEF PostCommit, AdminCommit, PostCommitFails,
     AdminCommitFails, DeadlockVictim, RequestFails, PostUpdateUncertain
<1>6. ASSUME NEW r \in Requests, NEW u \in Users, NEW j \in Links,
              IdentityVerificationStart(r, u, j)
                \/ AdminUserPasswordLinkPUT(r, u, j)
      PROVE  Locks'
  BY <1>6, BeginLocks DEF IdentityVerificationStart, AdminUserPasswordLinkPUT
<1>7. ASSUME NEW r \in Requests, NEW u \in Users, AdminUserPasswordPUT(r, u)
      PROVE  Locks'
  BY <1>7, BeginLocks DEF AdminUserPasswordPUT
<1>8. ASSUME NEW r \in Requests, NEW u \in Users, NEW t \in Statuses,
              AdminUsersPOST(r, u, t)
      PROVE  Locks'
  <2>1. CASE UNCHANGED <<pc, req>>
    BY SMTT(30), <1>8, <2>1 DEF AdminUsersPOST, Locks, NoLocks, OwnLink, LockedActive,
       LocksDisjoint, IssueFresh, Locked, Active
  <2>2. ASSUME NEW j \in Links, Fresh(j), Begin(r, "issue", u, j)
        PROVE  Locks'
    BY <1>8, <2>2, BeginLocks DEF AdminUsersPOST
  <2> QED BY <1>8, <2>1, <2>2 DEF AdminUsersPOST
<1>9. ASSUME NEW r \in Requests, NEW j \in Links,
             PostValidate(r, j) \/ ResetPasswordDELETE(r, j)
      PROVE  Locks'
  <2>1. owner[j] \in Users
    BY <1>9 DEF PostValidate, FindIdentityVerification, Active, TypeOK,
       ResetPasswordDELETE, MailedIssued
  <2> QED
    BY <1>9, <2>1, BeginLocks DEF PostValidate, ResetPasswordDELETE
<1>10. ASSUME NEW r \in Requests, DeleteRevoke(r)
       PROVE  Locks'
  <2> DEFINE j == req[r].jti
  <2>1. tx[r] = NoMarks /\ Locked(r) = {}
    BY <1>10 DEF DeleteRevoke, Locks, NoLocks, Locked, NoMarks
  <2>2. /\ \A s \in Requests : j \notin Locked(s)
        /\ owner' = owner /\ pc'[r] = "idle" /\ tx'[r] = NoMarks
        /\ \A s \in Requests \ {r} : tx'[s] = tx[s] /\ pc'[s] = pc[s]
                                     /\ req'[s] = req[s]
        /\ spent'.consumed = spent.consumed
        /\ spent'.revoked = spent.revoked \cup {j}
    BY <1>10, <2>1 DEF DeleteRevoke, LockedByOther, TypeOK, Marks, Return
  <2>3. \A s \in Requests : Locked(s)' = Locked(s)
    BY <2>1, <2>2 DEF Locked
  <2>4. LockedActive'
    BY <2>2, <2>3 DEF Locks, LockedActive, Active
  <2>5. LocksDisjoint' /\ NoLocks'
    BY <2>2, <2>3 DEF Locks, LocksDisjoint, NoLocks
  <2>6. OwnLink'
    BY <2>2 DEF Locks, OwnLink, LinkOpen, NoMarks
  <2>7. IssueFresh'
    BY <2>2 DEF Locks, IssueFresh
  <2> QED
    BY <2>4, <2>5, <2>6, <2>7 DEF Locks
<1>11. CASE Crash
  <2>1. \A s \in Requests : Locked(s)' = {} /\ tx'[s] = NoMarks /\ pc'[s] = "idle"
    BY <1>11 DEF Crash, Locked, NoMarks
  <2> QED
    BY SMTT(30), <2>1 DEF Locks, NoLocks, OwnLink, LockedActive, LocksDisjoint, IssueFresh,
       LinkOpen, NoMarks
<1>12. ASSUME UNCHANGED <<owner, spent, pc, req, tx>>
       PROVE  Locks'
  BY <1>12 DEF Locks, NoLocks, OwnLink, LockedActive, LocksDisjoint, IssueFresh,
     Locked, Active
<1> QED
  BY <1>1, <1>2, <1>3, <1>4, <1>5, <1>6, <1>7, <1>8, <1>9, <1>10, <1>11, <1>12
  DEF Next, Progress, Expire, AdminUserPATCH, AdminUserDELETE, vars

-----------------------------------------------------------------------------
(* Resets of one account exclude each other.                               *)

\* A request after a step: unchanged, returned, just started, or one step
\* further with the same user and links.
LEMMA RequestStep ==
    ASSUME TypeOK, [Next]_vars, NEW r \in Requests
    PROVE  \/ pc'[r] = pc[r] /\ req'[r] = req[r] /\ tx'[r] = tx[r]
           \/ pc'[r] = "idle" /\ req'[r] = Idle
           \/ /\ pc'[r] \in {"issue", "delete", "consume", "adminRevoke"}
              /\ req'[r].known = IssuedTo(req'[r].user)
              /\ owner' = owner
           \/ PostConsume(r) \/ PostRevoke(r) \/ PostUpdatePassword(r)
           \/ AdminRevoke(r) \/ AdminResetUserPassword(r)
<1> USE DEF table, history
<1> DEFINE Same == pc'[r] = pc[r] /\ req'[r] = req[r] /\ tx'[r] = tx[r]
           Returned == pc'[r] = "idle" /\ req'[r] = Idle
           Started == /\ pc'[r] \in {"issue", "delete", "consume", "adminRevoke"}
                      /\ req'[r].known = IssuedTo(req'[r].user)
                      /\ owner' = owner
<1>1. ASSUME NEW s \in Requests, Return(s)
      PROVE  Same \/ Returned
  BY <1>1 DEF Return, TypeOK
<1>2. ASSUME NEW s \in Requests, NEW u, NEW j,
             NEW at \in {"issue", "delete", "consume", "adminRevoke"},
             Begin(s, at, u, j), UNCHANGED <<tx, owner>>
      PROVE  Same \/ Started
  BY <1>2 DEF Begin, TypeOK
<1>3. ASSUME NEW s \in Requests,
             \/ PostConsume(s) \/ PostRevoke(s) \/ PostUpdatePassword(s)
             \/ AdminRevoke(s) \/ AdminResetUserPassword(s)
      PROVE  s = r \/ Same
  BY <1>3 DEF PostConsume, PostRevoke, PostUpdatePassword, AdminRevoke,
     AdminResetUserPassword, Return, TypeOK
<1>4. ASSUME NEW s \in Requests,
             \/ SendIdentityVerificationEmail(s) \/ DeleteRevoke(s)
             \/ PostUpdateUncertain(s)
             \/ PostCommit(s) \/ PostCommitFails(s) \/ AdminCommit(s)
             \/ AdminCommitFails(s) \/ DeadlockVictim(s) \/ RequestFails(s)
      PROVE  Return(s)
  BY <1>4 DEF SendIdentityVerificationEmail, DeleteRevoke, PostUpdateUncertain,
     PostCommit, PostCommitFails, AdminCommit, AdminCommitFails, DeadlockVictim,
     RequestFails
<1>5. ASSUME NEW s \in Requests, NEW u \in Users, NEW j \in Links,
             IdentityVerificationStart(s, u, j) \/ AdminUserPasswordLinkPUT(s, u, j)
      PROVE  Same \/ Started
  BY <1>2, <1>5 DEF IdentityVerificationStart, AdminUserPasswordLinkPUT
<1>6. ASSUME NEW s \in Requests, NEW u \in Users, AdminUserPasswordPUT(s, u)
      PROVE  Same \/ Started
  BY <1>2, <1>6 DEF AdminUserPasswordPUT
<1>7. ASSUME NEW s \in Requests, NEW u \in Users, NEW t \in Statuses,
             AdminUsersPOST(s, u, t)
      PROVE  Same \/ Started
  BY <1>2, <1>7 DEF AdminUsersPOST
<1>8. ASSUME NEW s \in Requests, NEW j \in Links,
             PostValidate(s, j) \/ ResetPasswordDELETE(s, j)
      PROVE  Same \/ Started
  BY <1>2, <1>8 DEF PostValidate, ResetPasswordDELETE
<1>9. CASE Crash
  BY <1>9 DEF Crash
<1>10. CASE UNCHANGED <<pc, req, tx>>
  BY <1>10
<1>11. ASSUME NEW u \in Users, NEW t \in Statuses, AdminUserPATCH(u, t)
       PROVE  UNCHANGED <<pc, req, tx>>
  BY <1>11 DEF AdminUserPATCH
<1>12. CASE UNCHANGED vars
  BY <1>10, <1>12 DEF vars
<1>13. ASSUME NEW s \in Requests, Progress(s) \/ RequestFails(s)
       PROVE  \/ Same \/ Returned
              \/ PostConsume(r) \/ PostRevoke(r) \/ PostUpdatePassword(r)
              \/ AdminRevoke(r) \/ AdminResetUserPassword(r)
  BY <1>1, <1>3, <1>4, <1>13 DEF Progress
<1> HIDE DEF Same, Returned, Started
<1>14. CASE \/ \E j \in Links : Expire(j)
            \/ \E u \in Users : AdminUserDELETE(u)
            \/ \E u \in Users, t \in Statuses : AdminUserPATCH(u, t)
  BY <1>10, <1>11, <1>14 DEF Expire, AdminUserDELETE, Same
<1>15. CASE Next
  BY <1>5, <1>6, <1>7, <1>8, <1>9, <1>13, <1>14, <1>15 DEF Next, Returned, Same, Started
<1> QED
  BY <1>12, <1>15
\* A request is past its revocation after a step only if it was before, for
\* the same user and link, or has just revoked.
LEMMA PastRevocation ==
    ASSUME TypeOK, [Next]_vars, NEW r \in Requests, pc'[r] \in {"update", "commit"}
    PROVE  \/ pc[r] \in {"update", "commit"} /\ req'[r] = req[r]
           \/ PostRevoke(r)
BY SMTT(30), RequestStep
DEF TypeOK, PostConsume, PostUpdatePassword, AdminRevoke, AdminResetUserPassword,
    Return, Idle

\* A revocation by r waits for every other reset of the same account that has
\* consumed its link.
LEMMA RevokeWaits ==
    ASSUME TypeOK, Bound, Locks, NEW r \in Requests, NEW s \in Requests, r # s,
           PostRevoke(r), pc[s] \in LinkOpen
    PROVE  req[r].user # req[s].user
<1> DEFINE j == req[s].jti
<1>1. j \in Locked(s) /\ owner[j] = req[s].user /\ j \in Links
  BY DEF Locks, OwnLink, Locked, Bound
<1>2. Active(j) /\ j \notin Locked(r)
  BY <1>1 DEF Locks, LockedActive, LocksDisjoint
<1>3. LockedByOther(r, j)
  BY <1>1 DEF LockedByOther
<1> QED
  BY <1>1, <1>2, <1>3 DEF PostRevoke, Outstanding

\* No step brings two link resets of one account past the revocation.
LEMMA ExclusiveStep ==
    ASSUME TypeOK, Bound, Locks, ResetsExclusive, [Next]_vars
    PROVE  ResetsExclusive'
<1> SUFFICES ASSUME NEW r \in Requests, NEW s \in Requests, r # s,
                    pc'[r] \in {"update", "commit"}, pc'[s] \in {"update", "commit"}
             PROVE  req'[r].user # req'[s].user
  BY DEF ResetsExclusive
<1>1. ASSUME NEW a \in Requests, NEW b \in Requests, a # b, PostRevoke(a),
             pc'[b] \in {"update", "commit"}
      PROVE  req'[a].user # req'[b].user
  <2>1. pc[b] \in LinkOpen /\ req' = req
    BY <1>1 DEF PostRevoke, LinkOpen, TypeOK
  <2> QED
    BY <1>1, <2>1, RevokeWaits
<1>2. CASE ~PostRevoke(r) /\ ~PostRevoke(s)
  BY <1>2, PastRevocation DEF ResetsExclusive
<1> QED
  BY <1>1, <1>2

\* What TypeOK, Bound, MailedIssued and Locks say together is an invariant.
LEMMA LocksInvariant == Spec => [](TypeOK /\ Bound /\ MailedIssued /\ Locks)
<1>1. ASSUME Init PROVE TypeOK
  <2>1. NoMarks \in Marks
    BY DEF NoMarks, Marks
  <2>2. acct \in [Users -> Statuses]
    BY <1>1 DEF Init, Statuses
  <2>3. Idle \in [user : Users \cup {NoUser}, jti : Links \cup {NoLink},
                   known : SUBSET Links]
    BY DEF Idle
  <2>4. "idle" \in PCs /\ 0 \in 0 .. MaxFaults
    BY MaxFaultsAssumption DEF PCs
  <2> QED
    BY <1>1, <2>1, <2>2, <2>3, <2>4 DEF Init, TypeOK
<1>2. Init => Bound
  BY DEF Init, Bound, LinkOpen
<1>4. Init => MailedIssued
  BY DEF Init, MailedIssued
<1>3. Init => Locks
  BY DEF Init, Locks, NoLocks, OwnLink, LockedActive, LocksDisjoint, IssueFresh,
     LinkOpen, Locked, NoMarks
<1> QED
  BY <1>1, <1>2, <1>3, <1>4, TypeStep, MailedStep, LocksStep, PTL DEF Spec

\* Every variable of PasswordReset keeps its type.
THEOREM TypeCorrect == Spec => []TypeOK
BY LocksInvariant, PTL

\* At most one ResetPasswordPOST of an account is past the revocation of the
\* account's links, however many are submitted and through whichever links.
THEOREM Exclusion == Spec => []ResetsExclusive
<1>1. Init => ResetsExclusive
  BY DEF Init, ResetsExclusive
<1> QED
  BY <1>1, LocksInvariant, ExclusiveStep, PTL DEF Spec

-----------------------------------------------------------------------------
(* The passwords written through a link.                                   *)

\* A link that is neither consumed nor about to be accounts for no password
\* beyond the ones whose transaction was lost; any other for one more.
Ledger ==
    /\ \A r \in Requests : pc[r] = "commit" => writes[req[r].jti] > 0
    /\ \A j \in Links :
          \/ writes[j] <= lost[j]
          \/ /\ writes[j] <= lost[j] + 1
             /\ \/ j \in spent.consumed
                \/ \E r \in Requests : pc[r] = "commit" /\ req[r].jti = j

\* No request enters or leaves its commit, and no link is consumed.
Quiet ==
    /\ UNCHANGED <<writes, lost>>
    /\ spent'.consumed = spent.consumed
    /\ \A r \in Requests : /\ pc'[r] = "commit" <=> pc[r] = "commit"
                           /\ pc[r] = "commit" => req'[r] = req[r]

\* The steps that are not quiet.
LEMMA QuietSteps ==
    ASSUME TypeOK, Bound, Locks, [Next]_vars
    PROVE  \/ Quiet \/ Crash
           \/ \E r \in Requests : \/ PostUpdatePassword(r)
                                  \/ PostUpdateUncertain(r)
                                  \/ PostCommit(r) \/ PostCommitFails(r)
<1> USE DEF table, history
<1>1. ASSUME NEW r \in Requests, Return(r), pc[r] # "commit",
             UNCHANGED <<writes, lost>>, spent'.consumed = spent.consumed
      PROVE  Quiet
  BY <1>1 DEF Return, Quiet, TypeOK
<1>2. ASSUME NEW r \in Requests, NEW u, NEW j,
             NEW at \in {"issue", "delete", "consume", "adminRevoke"},
             Begin(r, at, u, j), UNCHANGED <<table, history>>
      PROVE  Quiet
  BY <1>2 DEF Begin, Quiet, TypeOK
<1>3. ASSUME NEW r \in Requests, PostConsume(r)
      PROVE  Quiet
  <2>1. CASE Return(r)
    BY <1>1, <1>3, <2>1 DEF PostConsume
  <2>2. CASE ~Return(r)
    BY <1>3, <2>2 DEF PostConsume, Quiet, TypeOK
  <2> QED BY <2>1, <2>2
<1>4. ASSUME NEW r \in Requests, PostRevoke(r) \/ AdminRevoke(r)
      PROVE  Quiet
  BY <1>4 DEF PostRevoke, AdminRevoke, Quiet, TypeOK
<1>5. ASSUME NEW r \in Requests, AdminResetUserPassword(r)
      PROVE  Quiet
  <2>1. CASE Return(r)
    BY <1>1, <1>5, <2>1 DEF AdminResetUserPassword
  <2>2. CASE ~Return(r)
    BY <1>5, <2>2 DEF AdminResetUserPassword, Quiet, TypeOK
  <2> QED BY <2>1, <2>2
<1>6. ASSUME NEW r \in Requests, AdminCommit(r) \/ AdminCommitFails(r)
      PROVE  Quiet
  <2>1. tx[r].consumed = {}
    BY <1>6 DEF AdminCommit, AdminCommitFails, Locks, OwnLink, LinkOpen
  <2>2. spent'.consumed = spent.consumed
    BY <1>6, <2>1 DEF AdminCommit, AdminCommitFails, Apply, TypeOK, Marks
  <2> QED
    BY <1>1, <1>6, <2>2 DEF AdminCommit, AdminCommitFails
<1>7. ASSUME NEW r \in Requests,
             \/ SendIdentityVerificationEmail(r) \/ DeleteRevoke(r)
             \/ RequestFails(r)
      PROVE  Quiet
  BY <1>1, <1>7 DEF SendIdentityVerificationEmail, DeleteRevoke, RequestFails
<1>8. ASSUME NEW r \in Requests, DeadlockVictim(r)
      PROVE  Quiet
  <2>1. pc[r] # "commit"
    BY <1>8 DEF DeadlockVictim, WaitsFor
  <2> QED
    BY <1>1, <1>8, <2>1 DEF DeadlockVictim
<1>9. ASSUME NEW r \in Requests, NEW j \in Links,
             PostValidate(r, j) \/ ResetPasswordDELETE(r, j)
      PROVE  Quiet
  BY <1>2, <1>9 DEF PostValidate, ResetPasswordDELETE
<1>10. ASSUME NEW r \in Requests, NEW u \in Users, NEW j \in Links,
              \/ IdentityVerificationStart(r, u, j)
              \/ AdminUserPasswordLinkPUT(r, u, j)
       PROVE  Quiet
  BY <1>2, <1>10 DEF IdentityVerificationStart, AdminUserPasswordLinkPUT
<1>11. ASSUME NEW r \in Requests, NEW u \in Users, AdminUserPasswordPUT(r, u)
       PROVE  Quiet
  BY <1>2, <1>11 DEF AdminUserPasswordPUT
<1>12. ASSUME NEW r \in Requests, NEW u \in Users, NEW t \in Statuses,
              AdminUsersPOST(r, u, t)
       PROVE  Quiet
  BY <1>2, <1>12 DEF AdminUsersPOST, Quiet
<1>13. ASSUME UNCHANGED <<spent, pc, req, writes, lost>>
       PROVE  Quiet
  BY <1>13 DEF Quiet
<1>14. ASSUME NEW j \in Links, Expire(j)
       PROVE  Quiet
  BY <1>13, <1>14 DEF Expire
<1>15. ASSUME NEW u \in Users, NEW t \in Statuses, AdminUserPATCH(u, t)
       PROVE  Quiet
  BY <1>13, <1>15 DEF AdminUserPATCH
<1>16. ASSUME NEW u \in Users, AdminUserDELETE(u)
       PROVE  Quiet
  BY <1>13, <1>16 DEF AdminUserDELETE
<1>17. CASE UNCHANGED vars
  BY <1>13, <1>17 DEF vars
<1> QED
  BY <1>3, <1>4, <1>5, <1>6, <1>7, <1>8, <1>9, <1>10, <1>11, <1>12, <1>14,
     <1>15, <1>16, <1>17
  DEF Next, Progress

\* No other request is about to commit through the link of r.
LEMMA OwnCommit ==
    ASSUME TypeOK, Locks, NEW r \in Requests, NEW s \in Requests,
           r # s, pc[r] \in LinkOpen, pc[s] \in LinkOpen
    PROVE  req[r].jti # req[s].jti
<1>1. req[r].jti \in Locked(r) /\ req[s].jti \in Locked(s)
  BY DEF Locks, OwnLink, Locked
<1> QED
  BY <1>1 DEF Locks, LocksDisjoint

\* A handler that returns leaves the other requests alone.
LEMMA ReturnFrame ==
    ASSUME TypeOK, NEW r \in Requests, Return(r)
    PROVE  /\ pc'[r] = "idle"
           /\ \A s \in Requests \ {r} : pc'[s] = pc[s] /\ req'[s] = req[s]
BY DEF Return, TypeOK

\* Every step keeps the account of writes and of consumed links.
LEMMA LedgerStep ==
    ASSUME TypeOK, Bound, Locks, Ledger, ConsumedOnlyAfterWrite, [Next]_vars
    PROVE  Ledger' /\ ConsumedOnlyAfterWrite'
<1>1. CASE Quiet
  BY <1>1 DEF Quiet, Ledger, ConsumedOnlyAfterWrite
<1>2. ASSUME NEW r \in Requests, PostUpdatePassword(r)
      PROVE  Ledger' /\ ConsumedOnlyAfterWrite'
  <2> DEFINE j == req[r].jti
  <2>1. pc[r] = "update" /\ spent' = spent /\ lost' = lost
    BY <1>2 DEF PostUpdatePassword, table
  <2>2. j \in Links
    BY <2>1 DEF Bound, LinkOpen
  <2>3. CASE acct[req[r].user] = "enabled"
    <3>1. writes' = [writes EXCEPT ![j] = @ + 1] /\ req' = req
      BY <1>2, <2>3 DEF PostUpdatePassword
    <3>2. pc'[r] = "commit" /\ \A s \in Requests \ {r} : pc'[s] = pc[s]
      BY <1>2, <2>3 DEF PostUpdatePassword, TypeOK
    <3>3. j \notin spent.consumed
      <4>1. j \in Locked(r)
        BY <2>1 DEF Locks, OwnLink, Locked, LinkOpen
      <4> QED BY <4>1 DEF Locks, LockedActive, Active
    <3>4. \A s \in Requests : pc[s] = "commit" => req[s].jti # j
      BY <2>1, OwnCommit DEF LinkOpen
    <3>5. writes[j] <= lost[j] /\ writes[j] \in Nat /\ lost[j] \in Nat
      BY <2>2, <3>3, <3>4 DEF TypeOK, Ledger
    <3>6. writes'[j] = writes[j] + 1 /\ \A k \in Links \ {j} : writes'[k] = writes[k]
      BY <2>2, <3>1 DEF TypeOK
    <3>7. \A s \in Requests : pc'[s] = "commit" => writes'[req'[s].jti] > 0
      <4>1. writes'[req'[r].jti] > 0
        BY <3>1, <3>5, <3>6
      <4>2. ASSUME NEW s \in Requests \ {r}, pc'[s] = "commit"
            PROVE  writes'[req'[s].jti] > 0
        <5>1. pc[s] = "commit" /\ req'[s] = req[s]
          BY <3>1, <3>2, <4>2
        <5>2. req[s].jti \in Links \ {j}
          BY <3>4, <5>1 DEF Bound, LinkOpen
        <5> QED BY <3>6, <5>1, <5>2 DEF Ledger
      <4> QED BY <4>1, <4>2
    <3>8. ASSUME NEW k \in Links \ {j}
          PROVE  \/ writes'[k] <= lost'[k]
                 \/ /\ writes'[k] <= lost'[k] + 1
                    /\ \/ k \in spent'.consumed
                       \/ \E s \in Requests : pc'[s] = "commit" /\ req'[s].jti = k
      <4>1. writes'[k] = writes[k] /\ lost'[k] = lost[k]
        BY <2>1, <3>6
      <4>2. ASSUME NEW s \in Requests, pc[s] = "commit"
            PROVE  pc'[s] = "commit" /\ req'[s] = req[s]
        BY <2>1, <3>1, <3>2, <4>2
      <4> QED BY <2>1, <4>1, <4>2 DEF Ledger
    <3>9. writes'[j] <= lost'[j] + 1
      BY <2>1, <3>5, <3>6
    <3>10. \A k \in spent'.consumed : writes'[k] > 0
      <4>1. spent.consumed \subseteq Links \ {j}
        BY <3>3 DEF TypeOK, Marks
      <4> QED BY <2>1, <3>6, <4>1 DEF ConsumedOnlyAfterWrite
    <3>11. pc'[r] = "commit" /\ req'[r].jti = j
      BY <3>1, <3>2
    <3> QED
      BY <3>7, <3>8, <3>9, <3>10, <3>11 DEF Ledger, ConsumedOnlyAfterWrite
  <2>4. CASE acct[req[r].user] # "enabled"
    <3>1. Return(r) /\ writes' = writes
      BY <1>2, <2>4 DEF PostUpdatePassword
    <3>2. Quiet
      BY <2>1, <3>1, ReturnFrame DEF Quiet
    <3> QED BY <1>1, <3>2
  <2> QED BY <2>3, <2>4
<1>3. ASSUME NEW r \in Requests, PostUpdateUncertain(r)
      PROVE  Ledger' /\ ConsumedOnlyAfterWrite'
  <2> DEFINE j == req[r].jti
  <2>1. /\ pc[r] = "update" /\ spent' = spent /\ Return(r)
        /\ writes' = [writes EXCEPT ![j] = @ + 1] /\ lost' = [lost EXCEPT ![j] = @ + 1]
    BY <1>3 DEF PostUpdateUncertain, table
  <2>2. j \in Links
    BY <2>1 DEF Bound, LinkOpen
  <2>3. /\ writes'[j] = writes[j] + 1 /\ lost'[j] = lost[j] + 1
        /\ \A k \in Links \ {j} : writes'[k] = writes[k] /\ lost'[k] = lost[k]
    BY <2>1, <2>2 DEF TypeOK
  <2>4. \A k \in Links : writes[k] \in Nat /\ lost[k] \in Nat
    BY DEF TypeOK
  <2>5. \A s \in Requests : /\ pc'[s] = "commit" <=> pc[s] = "commit"
                            /\ pc[s] = "commit" => req'[s] = req[s]
    BY <2>1, ReturnFrame
  <2>6. \A s \in Requests : pc'[s] = "commit" => writes'[req'[s].jti] > 0
    <3>1. ASSUME NEW s \in Requests, pc[s] = "commit"
          PROVE  req[s].jti \in Links /\ writes[req[s].jti] > 0
      BY <3>1 DEF Bound, LinkOpen, Ledger
    <3>2. \A k \in Links : writes[k] > 0 => writes'[k] > 0
      BY <2>2, <2>3, <2>4
    <3> QED BY <2>5, <3>1, <3>2
  <2>7. ASSUME NEW k \in Links
        PROVE  \/ writes'[k] <= lost'[k]
               \/ /\ writes'[k] <= lost'[k] + 1
                  /\ \/ k \in spent'.consumed
                     \/ \E s \in Requests : pc'[s] = "commit" /\ req'[s].jti = k
    <3>1. /\ writes[k] <= lost[k] => writes'[k] <= lost'[k]
          /\ writes[k] <= lost[k] + 1 => writes'[k] <= lost'[k] + 1
      BY <2>2, <2>3, <2>4
    <3>2. (\E s \in Requests : pc[s] = "commit" /\ req[s].jti = k)
            => \E s \in Requests : pc'[s] = "commit" /\ req'[s].jti = k
      BY <2>5
    <3> QED BY <2>1, <3>1, <3>2 DEF Ledger
  <2>8. \A k \in spent'.consumed : writes'[k] > 0
    <3>1. spent.consumed \subseteq Links
      BY DEF TypeOK, Marks
    <3>2. \A k \in Links : writes[k] > 0 => writes'[k] > 0
      BY <2>2, <2>3, <2>4
    <3> QED BY <2>1, <3>1, <3>2 DEF ConsumedOnlyAfterWrite
  <2> QED BY <2>6, <2>7, <2>8 DEF Ledger, ConsumedOnlyAfterWrite
<1>4. ASSUME NEW r \in Requests, PostCommit(r) \/ PostCommitFails(r)
      PROVE  Ledger' /\ ConsumedOnlyAfterWrite'
  <2> DEFINE j == req[r].jti
  <2>1. pc[r] = "commit" /\ writes' = writes /\ Return(r)
    BY <1>4 DEF PostCommit, PostCommitFails, history
  <2>2. j \in Links
    BY <2>1 DEF Bound, LinkOpen
  <2>3. tx[r].consumed = {j}
    BY <2>1 DEF Locks, OwnLink, LinkOpen
  <2>4. /\ pc'[r] = "idle"
        /\ \A s \in Requests \ {r} : pc'[s] = pc[s] /\ req'[s] = req[s]
    BY <2>1, ReturnFrame
  <2>5. writes[j] \in Nat /\ lost[j] \in Nat /\ writes[j] > 0
    BY <2>1, <2>2 DEF TypeOK, Ledger
  <2>6. \A s \in Requests : pc'[s] = "commit" => writes'[req'[s].jti] > 0
    BY <2>1, <2>4 DEF Ledger
  <2>7. \A k \in Links \ {j}, s \in Requests :
            pc[s] = "commit" /\ req[s].jti = k => pc'[s] = "commit" /\ req'[s].jti = k
    BY <2>4
  <2>8. CASE spent' = Apply(r) /\ lost' = lost
    <3>1. spent'.consumed = spent.consumed \cup {j}
      BY <2>3, <2>8 DEF Apply
    <3>2. ASSUME NEW k \in Links \ {j}
          PROVE  \/ writes'[k] <= lost'[k]
                 \/ /\ writes'[k] <= lost'[k] + 1
                    /\ \/ k \in spent'.consumed
                       \/ \E s \in Requests : pc'[s] = "commit" /\ req'[s].jti = k
      BY <2>1, <2>7, <2>8, <3>1 DEF Ledger
    <3>3. writes'[j] <= lost'[j] + 1
      BY <2>1, <2>2, <2>5, <2>8 DEF Ledger
    <3>4. ConsumedOnlyAfterWrite'
      BY <2>1, <2>5, <3>1 DEF ConsumedOnlyAfterWrite
    <3> QED BY <2>6, <3>1, <3>2, <3>3, <3>4 DEF Ledger
  <2>9. CASE spent' = spent /\ lost' = [lost EXCEPT ![j] = @ + 1]
    <3>1. lost'[j] = lost[j] + 1 /\ \A k \in Links \ {j} : lost'[k] = lost[k]
      BY <2>2, <2>9 DEF TypeOK
    <3>2. writes'[j] <= lost'[j]
      BY <2>1, <2>2, <2>5, <3>1 DEF Ledger
    <3>3. ASSUME NEW k \in Links \ {j}
          PROVE  \/ writes'[k] <= lost'[k]
                 \/ /\ writes'[k] <= lost'[k] + 1
                    /\ \/ k \in spent'.consumed
                       \/ \E s \in Requests : pc'[s] = "commit" /\ req'[s].jti = k
      <4>1. lost'[k] = lost[k]
        BY <3>1
      <4> QED BY <2>1, <2>7, <2>9, <4>1 DEF Ledger
    <3>4. ConsumedOnlyAfterWrite'
      BY <2>1, <2>9 DEF ConsumedOnlyAfterWrite
    <3> QED BY <2>6, <3>2, <3>3, <3>4 DEF Ledger
  <2>10. (spent' = Apply(r) /\ lost' = lost)
          \/ (spent' = spent /\ lost' = [lost EXCEPT ![j] = @ + 1])
    BY <1>4 DEF PostCommit, PostCommitFails, history
  <2> QED BY <2>8, <2>9, <2>10
<1>5. CASE Crash
  <2>1. writes' = writes /\ spent' = spent /\ \A s \in Requests : pc'[s] = "idle"
    BY <1>5 DEF Crash, table
  <2>2. \A k \in Links : /\ writes[k] \in Nat /\ lost[k] \in Nat
                         /\ lost'[k] \in {lost[k], lost[k] + 1}
                         /\ (\E s \in Requests : pc[s] = "commit" /\ req[s].jti = k)
                              => lost'[k] = lost[k] + 1
    BY <1>5 DEF Crash, TypeOK
  <2> QED BY <2>1, <2>2 DEF Ledger, ConsumedOnlyAfterWrite
<1> QED
  BY <1>1, <1>2, <1>3, <1>4, <1>5, QuietSteps

\* The account of writes and of consumed links holds of every reachable state.
LEMMA LedgerInvariant == Spec => [](Ledger /\ ConsumedOnlyAfterWrite)
<1>1. Init => Ledger /\ ConsumedOnlyAfterWrite
  BY DEF Init, Ledger, ConsumedOnlyAfterWrite, NoMarks
<1> QED
  BY <1>1, LocksInvariant, LedgerStep, PTL DEF Spec

\* A link is marked consumed only when ResetPasswordPOST has changed the
\* password through it.
THEOREM RefusedResetsKeepLink == Spec => []ConsumedOnlyAfterWrite
BY LedgerInvariant, PTL

\* A link changes the password once, and once more for every transaction of
\* ResetPasswordPOST that was lost after the password was changed.
THEOREM OneWritePerLink == Spec => []WritesBounded
<1>1. TypeOK /\ Ledger => WritesBounded
  BY DEF TypeOK, Ledger, WritesBounded
<1> QED
  BY <1>1, LocksInvariant, LedgerInvariant, PTL

\* ResetPasswordPOST changes the password only through a link the table still
\* shows as neither consumed nor revoked.
THEOREM SpentLinks == Spec => SpentLinksStaySpent
<1>1. ASSUME TypeOK, Bound, Locks, [Next]_vars, NEW j \in Links,
             writes'[j] > writes[j]
      PROVE  Active(j)
  <2>1. \A k \in Links : writes[k] \in Nat
    BY <1>1 DEF TypeOK
  <2>2. writes' # writes
    BY <1>1, <2>1
  <2>3. ~Quiet /\ ~Crash
    BY <2>2 DEF Quiet, Crash
  <2>4. \A r \in Requests : ~PostCommit(r) /\ ~PostCommitFails(r)
    BY <2>2 DEF PostCommit, PostCommitFails, history
  <2>5. PICK r \in Requests : PostUpdatePassword(r) \/ PostUpdateUncertain(r)
    BY <1>1, <2>3, <2>4, QuietSteps
  <2>6. pc[r] = "update" /\ writes' = [writes EXCEPT ![req[r].jti] = @ + 1]
    BY <2>2, <2>5 DEF PostUpdatePassword, PostUpdateUncertain
  <2>7. req[r].jti = j
    BY <1>1, <2>1, <2>6 DEF TypeOK
  <2>8. j \in Locked(r)
    BY <1>1, <2>6, <2>7 DEF Locks, OwnLink, Locked, LinkOpen
  <2> QED BY <1>1, <2>8 DEF Locks, LockedActive
<1>2. TypeOK /\ Bound /\ Locks /\ [Next]_vars
        => [\A j \in Links : writes'[j] > writes[j] => Active(j)]_vars
  BY <1>1
<1> QED
  BY <1>2, LocksInvariant, PTL DEF Spec, SpentLinksStaySpent

-----------------------------------------------------------------------------
(* The links a reset leaves behind.                                        *)

\* The links a request found when it started belong to its user, and once it
\* has revoked they are spent or in its own transaction.
Known ==
    \A r \in Requests :
        /\ pc[r] = "idle" => req[r].known = {}
        /\ \A k \in req[r].known : owner[k] = req[r].user
        /\ pc[r] \in {"update", "commit", "adminUpdate", "adminCommit"} =>
             req[r].known \subseteq spent.consumed \cup spent.revoked \cup Locked(r)

\* What no step undoes: an issued link keeps its owner and a spent one stays
\* spent.
LEMMA Monotone ==
    ASSUME TypeOK, Bound, Locks, [Next]_vars
    PROVE  /\ \A j \in Links : owner[j] # NoUser => owner'[j] = owner[j]
           /\ spent.consumed \subseteq spent'.consumed
           /\ spent.revoked \subseteq spent'.revoked
<1> USE DEF table, history
<1>1. CASE UNCHANGED <<owner, spent>>
  BY <1>1
<1>2. ASSUME NEW r \in Requests, SendIdentityVerificationEmail(r)
      PROVE  /\ \A j \in Links : owner[j] # NoUser => owner'[j] = owner[j]
             /\ spent' = spent
  BY <1>2 DEF SendIdentityVerificationEmail, Locks, IssueFresh, TypeOK
<1>3. ASSUME NEW r \in Requests,
             \/ PostCommit(r) \/ PostCommitFails(r) \/ AdminCommit(r)
             \/ AdminCommitFails(r) \/ DeleteRevoke(r)
      PROVE  /\ owner' = owner
             /\ spent.consumed \subseteq spent'.consumed
             /\ spent.revoked \subseteq spent'.revoked
  <2>1. /\ owner' = owner
        /\ \/ spent' = spent \/ spent' = Apply(r)
           \/ spent' = [consumed |-> spent.consumed,
                        revoked |-> spent.revoked \cup {req[r].jti}]
    BY <1>3 DEF PostCommit, PostCommitFails, AdminCommit, AdminCommitFails,
       DeleteRevoke
  <2>2. /\ spent.consumed \subseteq Apply(r).consumed
        /\ spent.revoked \subseteq Apply(r).revoked
    BY DEF Apply
  <2> QED
    BY <2>1, <2>2
<1>4. ASSUME NEW r \in Requests,
             \/ PostConsume(r) \/ PostRevoke(r) \/ PostUpdatePassword(r)
             \/ PostUpdateUncertain(r) \/ AdminRevoke(r)
             \/ AdminResetUserPassword(r) \/ DeadlockVictim(r) \/ RequestFails(r)
      PROVE  UNCHANGED <<owner, spent>>
  BY <1>4 DEF PostConsume, PostRevoke, PostUpdatePassword, PostUpdateUncertain,
     AdminRevoke, AdminResetUserPassword, DeadlockVictim, RequestFails
<1>5. CASE Crash \/ UNCHANGED vars
  BY <1>1, <1>5 DEF Crash, vars
<1>6. ASSUME NEW r \in Requests, Progress(r) \/ RequestFails(r)
      PROVE  /\ \A j \in Links : owner[j] # NoUser => owner'[j] = owner[j]
             /\ spent.consumed \subseteq spent'.consumed
             /\ spent.revoked \subseteq spent'.revoked
  BY <1>1, <1>2, <1>3, <1>4, <1>6 DEF Progress
<1> QED
  BY <1>1, <1>5, <1>6
  DEF Next, IdentityVerificationStart, AdminUserPasswordLinkPUT,
      AdminUserPasswordPUT, AdminUsersPOST, PostValidate, ResetPasswordDELETE,
      Expire, AdminUserPATCH, AdminUserDELETE

\* Every step keeps what is known of the links.
LEMMA KnownStep ==
    ASSUME TypeOK, Bound, Locks, Known, [Next]_vars
    PROVE  Known'
<1> SUFFICES ASSUME NEW r \in Requests
             PROVE  /\ pc'[r] = "idle" => req'[r].known = {}
                    /\ \A k \in req'[r].known : owner'[k] = req'[r].user
                    /\ pc'[r] \in {"update", "commit", "adminUpdate", "adminCommit"} =>
                         req'[r].known \subseteq
                           spent'.consumed \cup spent'.revoked \cup Locked(r)'
  BY DEF Known
<1> DEFINE Past == {"update", "commit", "adminUpdate", "adminCommit"}
<1>0. req[r].known \subseteq Links
  BY DEF TypeOK
<1>1. ASSUME req'[r] = req[r], pc[r] # "idle"
      PROVE  \A k \in req'[r].known : owner'[k] = req'[r].user
  BY <1>0, <1>1, Monotone, NoUserAssumption DEF Known, Bound
<1>2. ASSUME req'[r] = req[r], tx'[r] = tx[r], pc[r] \in Past
      PROVE  req'[r].known \subseteq spent'.consumed \cup spent'.revoked \cup Locked(r)'
  BY <1>2, Monotone DEF Known, Locked
<1>3. CASE req'[r] = Idle /\ pc'[r] = "idle"
  BY <1>3 DEF Idle
<1>4. CASE pc'[r] = pc[r] /\ req'[r] = req[r] /\ tx'[r] = tx[r]
  <2>1. CASE pc[r] = "idle"
    <3>1. req[r].known = {}
      BY <2>1 DEF Known
    <3> QED BY <1>4, <2>1, <3>1
  <2>2. CASE pc[r] # "idle"
    BY <1>1, <1>2, <1>4, <2>2
  <2> QED BY <2>1, <2>2
<1>5. CASE /\ pc'[r] \in {"issue", "delete", "consume", "adminRevoke"}
           /\ req'[r].known = IssuedTo(req'[r].user) /\ owner' = owner
  BY <1>5 DEF IssuedTo
<1>6. CASE PostConsume(r)
  <2>1. CASE Return(r)
    BY <1>3, <2>1 DEF Return, TypeOK
  <2>2. CASE ~Return(r)
    <3>1. req' = req /\ pc[r] = "consume" /\ pc'[r] = "revoke"
      BY <1>6, <2>2 DEF PostConsume, TypeOK
    <3> QED BY <1>1, <3>1
  <2> QED BY <2>1, <2>2
<1>7. CASE PostRevoke(r) \/ AdminRevoke(r)
  <2>1. /\ req' = req /\ pc[r] # "idle" /\ pc'[r] # "idle" /\ spent' = spent
        /\ tx'[r].revoked = Outstanding(r, req[r].user)
        /\ tx'[r].consumed = tx[r].consumed
    BY <1>7 DEF PostRevoke, AdminRevoke, TypeOK, Marks, table
  <2>2. tx[r].revoked = {}
    BY <1>7 DEF PostRevoke, AdminRevoke, Locks, NoLocks, OwnLink, NoMarks
  <2>3. ASSUME NEW k \in req[r].known
        PROVE  k \in spent.consumed \cup spent.revoked \cup Locked(r)'
    <3>1. owner[k] = req[r].user /\ k \in Links /\ owner[k] # NoUser
      BY <1>0, <2>1, <2>3, NoUserAssumption DEF Known, Bound
    <3> QED
      BY <2>1, <2>2, <3>1 DEF Outstanding, Active, Locked
  <2> QED BY <1>1, <2>1, <2>3
<1>8. CASE PostUpdatePassword(r) \/ AdminResetUserPassword(r)
  <2>1. CASE Return(r)
    BY <1>3, <2>1 DEF Return, TypeOK
  <2>2. CASE ~Return(r)
    <3>1. req' = req /\ tx' = tx /\ pc[r] \in Past /\ pc'[r] # "idle"
      BY <1>8, <2>2 DEF PostUpdatePassword, AdminResetUserPassword, TypeOK
    <3> QED BY <1>1, <1>2, <3>1
  <2> QED BY <2>1, <2>2
<1> QED
  BY <1>3, <1>4, <1>5, <1>6, <1>7, <1>8, RequestStep

\* A reset or an administrator's reset that reports success has invalidated
\* every link the account had when the request was read.
THEOREM KnownLinks == Spec => KnownLinksInvalidated
<1>1. ASSUME Init PROVE Known
  <2>1. \A r \in Requests : pc[r] = "idle" /\ req[r].known = {}
    BY <1>1 DEF Init, Idle
  <2> QED BY <2>1 DEF Known
<1>2. ASSUME TypeOK, Known, NEW r \in Requests, PostCommit(r) \/ AdminCommit(r)
      PROVE  req[r].known \subseteq spent'.consumed \cup spent'.revoked
  <2>1. pc[r] \in {"commit", "adminCommit"} /\ spent' = Apply(r)
    BY <1>2 DEF PostCommit, AdminCommit
  <2>2. spent'.consumed \cup spent'.revoked = spent.consumed \cup spent.revoked \cup Locked(r)
    BY <2>1 DEF Apply, Locked
  <2> QED BY <1>2, <2>1, <2>2 DEF Known
<1>3. TypeOK /\ Known
        => [\A r \in Requests : PostCommit(r) \/ AdminCommit(r) =>
              req[r].known \subseteq spent'.consumed \cup spent'.revoked]_vars
  BY <1>2
<1> QED
  BY <1>1, <1>3, KnownStep, LocksInvariant, PTL DEF Spec, KnownLinksInvalidated
=============================================================================
