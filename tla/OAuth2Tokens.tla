---------------------------- MODULE OAuth2Tokens ----------------------------
(***************************************************************************)
(* The OAuth 2.0 token store: an authorization code is exchanged for an    *)
(* access token and a refresh token, a refresh token is rotated for the    *)
(* next pair, and a client revokes what it was given.  The store is        *)
(* internal/oidc/store.go over internal/storage/sql_provider.go; the order *)
(* in which the token, revocation and authorization endpoints call it is   *)
(* that of the OAuth 2.0 library, which is external.                       *)
(*                                                                         *)
(* Each action is one SQL statement.  A transaction sees committed rows    *)
(* (read committed, the weakest level the supported databases use by       *)
(* default), locks the rows it updates until it ends, and publishes its    *)
(* writes when it commits.  An update that meets a locked row waits, and   *)
(* then evaluates its WHERE clause again on the rows its snapshot had.     *)
(***************************************************************************)
EXTENDS Naturals, FiniteSets, Functions, TLC

CONSTANTS
    Grants,         \* authorization requests: the request_id column
    LegacyGrants,   \* grants whose refresh tokens record no access signature
    HybridGrants,   \* grants whose authorization response has an access token too
    Requests,       \* concurrent requests to the token and revocation endpoints
    MaxTokens       \* bound on the tokens ever issued

ASSUME TokenAssumption ==
    /\ LegacyGrants \subseteq Grants
    /\ HybridGrants \subseteq Grants
    /\ MaxTokens \in Nat

VARIABLES
    code,       \* the authorization code session of each grant
    access,     \* access token sessions, by signature
    refresh,    \* refresh token sessions, by signature
    issued,     \* signatures handed out so far
    req,        \* the requests in progress
    exchanged,  \* history: how often each code or refresh token was exchanged
    withdrawn,  \* history: grants whose revocation was reported successful
    disturbed   \* history: grants a revocation or a replay has touched

tables == <<code, access, refresh>>
history == <<exchanged, withdrawn, disturbed>>
vars == <<code, access, refresh, issued, req, exchanged, withdrawn, disturbed>>

Signatures == 1 .. MaxTokens

\* The access_signature column of a refresh token issued without an access token.
NoSignature == 0

NoSnapshot == {0}

\* A request between two HTTP requests: nothing in flight, no transaction.
Idle == [pc |-> "idle", op |-> "none", grant |-> "none", sig |-> 0, new |-> 0,
         snap |-> NoSnapshot, codes |-> {}, acc |-> {}, ref |-> {}]

Init ==
    /\ code = [g \in Grants |-> "none"]
    /\ access = <<>>
    /\ refresh = <<>>
    /\ issued = 0
    /\ req = [q \in Requests |-> Idle]
    /\ exchanged = [codes |-> [g \in Grants |-> 0], refresh |-> [i \in Signatures |-> 0]]
    /\ withdrawn = {}
    /\ disturbed = {}

-----------------------------------------------------------------------------
(* Rows and locks *)

LiveAccess(g) == {i \in DOMAIN access : access[i].grant = g /\ ~access[i].revoked}
ActiveRefresh(g) == {i \in DOMAIN refresh : refresh[i].grant = g /\ refresh[i].active}

\* What the introspection endpoint answers for access token i.
IsActive(i) == i \in DOMAIN access /\ ~access[i].revoked

LockedCodes(q) == UNION {req[p].codes : p \in Requests \ {q}}
LockedAccess(q) == UNION {req[p].acc : p \in Requests \ {q}}
LockedRefresh(q) == UNION {req[p].ref : p \in Requests \ {q}}

\* The rows an update of request q has to lock: those matching when it started.
Candidates(q, matching) == IF req[q].snap = NoSnapshot THEN matching ELSE req[q].snap

\* The rows it changes once it holds them: those that still match.
Affected(q, matching) == Candidates(q, matching) \cap matching

\* The statement meets a row another transaction has locked, and waits for it.
Wait(q, matching, locked) ==
    /\ req[q].snap = NoSnapshot
    /\ matching \cap locked # {}
    /\ req' = [req EXCEPT ![q].snap = matching]
    /\ UNCHANGED <<tables, issued, history>>

\* The statement holds every row it needs.
Granted(q, matching, locked) == Candidates(q, matching) \cap locked = {}

Revoke(table, rows) == [i \in DOMAIN table |-> IF i \in rows
                            THEN [table[i] EXCEPT !.revoked = TRUE] ELSE table[i]]
Deactivate(table, rows) == [i \in DOMAIN table |-> IF i \in rows
                            THEN [table[i] EXCEPT !.active = FALSE] ELSE table[i]]

\* The transaction of q is rolled back: its locks go, its writes were never published.
Rollback(q) ==
    /\ req' = [req EXCEPT ![q] = Idle]
    /\ UNCHANGED <<tables, issued, history>>

-----------------------------------------------------------------------------
(* The authorization endpoint *)

\* The authorization response: a code and, in the hybrid flow, an access token.
CreateAuthorizeCodeSession(g) ==
    /\ code[g] = "none"
    /\ issued + (IF g \in HybridGrants THEN 1 ELSE 0) <= MaxTokens
    /\ code' = [code EXCEPT ![g] = "active"]
    /\ IF g \in HybridGrants
       THEN /\ access' = access @@ (issued + 1 :> [grant |-> g, revoked |-> FALSE])
            /\ issued' = issued + 1
       ELSE UNCHANGED <<access, issued>>
    /\ UNCHANGED <<refresh, req, history>>

-----------------------------------------------------------------------------
(* The token endpoint: exchanging a code *)

\* GetAuthorizeCodeSession: an inactive code is a replay, and takes the grant's tokens with it.
GetAuthorizeCodeSession(q, g) ==
    /\ req[q] = Idle
    /\ code[g] # "none"
    /\ IF code[g] = "active"
       THEN /\ req' = [req EXCEPT ![q] = [Idle EXCEPT !.pc = "invalidate", !.op = "code", !.grant = g]]
            /\ UNCHANGED disturbed
       ELSE /\ req' = [req EXCEPT ![q] = [Idle EXCEPT !.pc = "revoke_refresh", !.op = "replay", !.grant = g]]
            /\ disturbed' = disturbed \cup {g}
    /\ UNCHANGED <<tables, issued, exchanged, withdrawn>>

\* InvalidateAuthorizeCodeSession, the first statement of the exchange's transaction.
\* No row affected is ErrInvalidatedAuthorizeCode.
InvalidateAuthorizeCodeSession(q) ==
    /\ req[q].pc = "invalidate"
    /\ req[q].grant \notin LockedCodes(q)
    /\ IF code[req[q].grant] = "active"
       THEN /\ req' = [req EXCEPT ![q].pc = "create_access", ![q].codes = {req[q].grant}]
            /\ UNCHANGED <<tables, issued, history>>
       ELSE Rollback(q)

-----------------------------------------------------------------------------
(* The token endpoint: rotating a refresh token *)

\* GetRefreshTokenSession: a revoked row is not found, an inactive one is a replay.
GetRefreshTokenSession(q, i) ==
    /\ req[q] = Idle
    /\ ~refresh[i].revoked
    /\ LET g == refresh[i].grant IN
       IF refresh[i].active
       THEN /\ req' = [req EXCEPT ![q] = [Idle EXCEPT !.pc = "rotate_access", !.op = "refresh",
                                                      !.grant = g, !.sig = i]]
            /\ UNCHANGED disturbed
       ELSE /\ req' = [req EXCEPT ![q] = [Idle EXCEPT !.pc = "delete_refresh", !.op = "replay",
                                                      !.grant = g, !.sig = i]]
            /\ disturbed' = disturbed \cup {g}
    /\ UNCHANGED <<tables, issued, exchanged, withdrawn>>

\* DeleteRefreshTokenSession: a replayed refresh token is never found again.
DeleteRefreshTokenSession(q) ==
    /\ req[q].pc = "delete_refresh"
    /\ req[q].sig \notin LockedRefresh(q)
    /\ refresh' = Revoke(refresh, {req[q].sig})
    /\ req' = [req EXCEPT ![q].pc = "revoke_refresh"]
    /\ UNCHANGED <<code, access, issued, history>>

\* The access token a rotation withdraws: the one recorded with the refresh
\* token, or every access token of the grant when none is recorded.
PairedAccess(q) ==
    LET paired == refresh[req[q].sig].acc IN
    IF paired = NoSignature THEN LiveAccess(req[q].grant)
    ELSE {paired} \cap LiveAccess(req[q].grant)

\* RotateRefreshToken, first half: exactly one access token has to be revoked.
RotateAccess(q) ==
    /\ req[q].pc = "rotate_access"
    /\ \/ Wait(q, PairedAccess(q), LockedAccess(q))
       \/ /\ Granted(q, PairedAccess(q), LockedAccess(q))
          /\ LET rows == Affected(q, PairedAccess(q)) IN
             IF Cardinality(rows) = 1
             THEN /\ req' = [req EXCEPT ![q].pc = "rotate_refresh", ![q].snap = NoSnapshot, ![q].acc = rows]
                  /\ UNCHANGED <<tables, issued, history>>
             ELSE Rollback(q)

\* RotateRefreshToken, second half: the grant's refresh tokens are deactivated, however many.
RotateRefresh(q) ==
    LET matching == ActiveRefresh(req[q].grant) IN
    /\ req[q].pc = "rotate_refresh"
    /\ \/ Wait(q, matching, LockedRefresh(q))
       \/ /\ Granted(q, matching, LockedRefresh(q))
          /\ req' = [req EXCEPT ![q].pc = "create_access", ![q].snap = NoSnapshot,
                                ![q].ref = Affected(q, matching)]
          /\ UNCHANGED <<tables, issued, history>>

-----------------------------------------------------------------------------
(* The token endpoint: the new pair *)

\* CreateAccessTokenSession: the row stays with the transaction until it commits.
CreateAccessTokenSession(q) ==
    /\ req[q].pc = "create_access"
    /\ issued < MaxTokens
    /\ issued' = issued + 1
    /\ req' = [req EXCEPT ![q].pc = "create_refresh", ![q].new = issued + 1]
    /\ UNCHANGED <<tables, history>>

\* CreateRefreshTokenSession: likewise, with the signature of the access token beside it.
CreateRefreshTokenSession(q) ==
    /\ req[q].pc = "create_refresh"
    /\ req' = [req EXCEPT ![q].pc = "commit"]
    /\ UNCHANGED <<tables, issued, history>>

\* What the commit of q publishes.
Published(q) ==
    LET r == req[q] IN
    /\ code' = [g \in Grants |-> IF g \in r.codes THEN "inactive" ELSE code[g]]
    /\ access' = Revoke(access, r.acc) @@ (r.new :> [grant |-> r.grant, revoked |-> FALSE])
    /\ refresh' = Deactivate(refresh, r.ref) @@
            (r.new :> [grant |-> r.grant, active |-> TRUE, revoked |-> FALSE,
                       acc |-> IF r.grant \in LegacyGrants THEN NoSignature ELSE r.new])
    /\ exchanged' = IF r.op = "code"
                    THEN [exchanged EXCEPT !.codes[r.grant] = @ + 1]
                    ELSE [exchanged EXCEPT !.refresh[r.sig] = @ + 1]

\* Commit: the exchange or the rotation is visible to everyone, and answered.
Commit(q) ==
    /\ req[q].pc = "commit"
    /\ Published(q)
    /\ req' = [req EXCEPT ![q] = Idle]
    /\ UNCHANGED <<issued, withdrawn, disturbed>>

-----------------------------------------------------------------------------
(* The revocation endpoint, and what a replay sets off *)

\* OAuth2RevocationPOST: the presented token is looked up; a token that is not
\* found, revoked or inactive is answered without anything being withdrawn.
NewRevocationRequest(q, g) ==
    /\ req[q] = Idle
    /\ LiveAccess(g) \cup {i \in ActiveRefresh(g) : ~refresh[i].revoked} # {}
    /\ req' = [req EXCEPT ![q] = [Idle EXCEPT !.pc = "revoke_refresh", !.op = "revoke", !.grant = g]]
    /\ disturbed' = disturbed \cup {g}
    /\ UNCHANGED <<tables, issued, exchanged, withdrawn>>

\* RevokeRefreshToken outside a transaction.
RevokeRefreshToken(q) ==
    LET matching == ActiveRefresh(req[q].grant) IN
    /\ req[q].pc = "revoke_refresh"
    /\ \/ Wait(q, matching, LockedRefresh(q))
       \/ /\ Granted(q, matching, LockedRefresh(q))
          /\ refresh' = Deactivate(refresh, Affected(q, matching))
          /\ req' = [req EXCEPT ![q].pc = "revoke_access", ![q].snap = NoSnapshot]
          /\ UNCHANGED <<code, access, issued, history>>

\* The success a revocation reports: only of a grant whose code can issue nothing more.
Reported(q, success) ==
    IF req[q].op = "revoke" /\ success /\ code[req[q].grant] = "inactive"
    THEN withdrawn \cup {req[q].grant} ELSE withdrawn

\* A revocation that reports success whatever it found.
RevokeAccessToken_AnyRows(q) ==
    LET matching == LiveAccess(req[q].grant) IN
    /\ req[q].pc = "revoke_access"
    /\ \/ Wait(q, matching, LockedAccess(q))
       \/ /\ Granted(q, matching, LockedAccess(q))
          /\ access' = Revoke(access, Affected(q, matching))
          /\ withdrawn' = Reported(q, TRUE)
          /\ req' = [req EXCEPT ![q] = Idle]
          /\ UNCHANGED <<code, refresh, issued, exchanged, disturbed>>

\* RevokeAccessToken outside a transaction: the rows change, and any number of
\* them but one is an error for the client.
RevokeAccessToken(q) ==
    LET matching == LiveAccess(req[q].grant) IN
    /\ req[q].pc = "revoke_access"
    /\ \/ Wait(q, matching, LockedAccess(q))
       \/ /\ Granted(q, matching, LockedAccess(q))
          /\ access' = Revoke(access, Affected(q, matching))
          /\ withdrawn' = Reported(q, Cardinality(Affected(q, matching)) = 1)
          /\ req' = [req EXCEPT ![q] = Idle]
          /\ UNCHANGED <<code, refresh, issued, exchanged, disturbed>>

\* A refused access request, a serialization failure, a deadlock the database
\* breaks, a lost connection: the request ends and its transaction is rolled back.
Fail(q) ==
    /\ req[q] # Idle
    /\ Rollback(q)

-----------------------------------------------------------------------------
Next ==
    \/ \E g \in Grants : CreateAuthorizeCodeSession(g)
    \/ \E q \in Requests :
        \/ \E g \in Grants : GetAuthorizeCodeSession(q, g)
        \/ InvalidateAuthorizeCodeSession(q)
        \/ \E i \in DOMAIN refresh : GetRefreshTokenSession(q, i)
        \/ DeleteRefreshTokenSession(q)
        \/ RotateAccess(q)
        \/ RotateRefresh(q)
        \/ CreateAccessTokenSession(q)
        \/ CreateRefreshTokenSession(q)
        \/ Commit(q)
        \/ \E g \in Grants : NewRevocationRequest(q, g)
        \/ RevokeRefreshToken(q)
        \/ RevokeAccessToken(q)
        \/ Fail(q)

Spec == Init /\ [][Next]_vars

-----------------------------------------------------------------------------
(* Properties *)

\* The tables hold token sessions of known grants, a refresh token names an
\* access token that exists, and a request that is idle holds no transaction.
TypeOK ==
    /\ code \in [Grants -> {"none", "active", "inactive"}]
    /\ DOMAIN access \subseteq Signatures /\ DOMAIN refresh \subseteq DOMAIN access
    /\ \A i \in DOMAIN access : access[i] \in [grant : Grants, revoked : BOOLEAN]
    /\ \A i \in DOMAIN refresh :
        /\ refresh[i] \in [grant : Grants, active : BOOLEAN, revoked : BOOLEAN,
                           acc : DOMAIN access \cup {NoSignature}]
        /\ code[refresh[i].grant] = "inactive"
    /\ issued \in 0 .. MaxTokens
    /\ \A q \in Requests : req[q].pc = "idle" => req[q] = Idle
    /\ withdrawn \subseteq disturbed /\ disturbed \subseteq Grants

\* A code, and a refresh token that records its access token, is exchanged for
\* a pair at most once, however many requests present it together: the
\* conditional updates of InvalidateAuthorizeCodeSession and RotateRefreshToken
\* let one transaction through.
ExchangedOnce ==
    /\ \A g \in Grants : exchanged.codes[g] <= 1
    /\ \A i \in DOMAIN refresh : refresh[i].grant \notin LegacyGrants => exchanged.refresh[i] <= 1

\* "so a rotated pair cannot outlive the rotation": once a refresh token was
\* exchanged, neither it nor the access token issued with it is usable.
RotatedPairDies ==
    \A i \in DOMAIN refresh :
        exchanged.refresh[i] > 0 => ~IsActive(i) /\ ~refresh[i].active

\* When the revocation endpoint reports success for a grant, no access token of
\* the grant is usable, then or ever after: a rotation that was in flight is
\* either withdrawn with the rest or fails, or the client is told of an error.
\* (The access token of a hybrid response belongs to no refresh token.)
RevocationHolds ==
    \A i \in DOMAIN access : access[i].grant \in withdrawn \ HybridGrants => ~IsActive(i)

\* Until something revokes the grant or replays one of its tokens, the client
\* keeps something it can use: the code, or the newest pair.  A request that
\* fails at any statement takes nothing away.
LatestPairUsable ==
    \A g \in Grants \ disturbed :
        \/ code[g] # "inactive"
        \/ \E i \in ActiveRefresh(g) :
            /\ ~refresh[i].revoked /\ IsActive(i)
            /\ \A j \in DOMAIN refresh : refresh[j].grant = g => j <= i
=============================================================================
