------------------------- MODULE OAuth2PushedRequest -------------------------
(***************************************************************************)
(* Pushed authorization requests.  A client pushes its parameters and gets *)
(* a request_uri; the authorization endpoint takes the stored session by   *)
(* revoking it.  A request that has to ask the user first (to log in, or   *)
(* for consent) makes the session available again before it redirects, so  *)
(* that the browser can come back with the same request_uri.  Authorization*)
(* requests for one request_uri interleave at every SQL statement.  That   *)
(* the library loads and then deletes the session is external.             *)
(***************************************************************************)
EXTENDS Naturals, TLAPS

CONSTANTS
    URIs,       \* request_uri values the endpoint may hand out
    Requests,   \* authorization requests being served at a time
    NoURI

ASSUME PushedAssumption == NoURI \notin URIs

VARIABLES
    par,        \* the pushed authorization session row of each request_uri
    req,        \* the authorization requests
    completed,  \* history: authorizations issued for each request_uri
    wrecked     \* history: URIs whose holder ended with an error

vars == <<par, req, completed, wrecked>>

Idle == [pc |-> "idle", uri |-> NoURI]

\* A request that has revoked the session and has neither answered nor given it back.
Holding == {"decide", "restore"}

Init ==
    /\ par = [u \in URIs |-> "none"]
    /\ req = [r \in Requests |-> Idle]
    /\ completed = [u \in URIs |-> 0]
    /\ wrecked = {}

-----------------------------------------------------------------------------
\* OAuth2PushedAuthorizationRequest: the session is stored unrevoked under a new
\* request_uri.  A refused request stores nothing.
Push(u) ==
    /\ par[u] = "none"
    /\ par' = [par EXCEPT ![u] = "fresh"]
    /\ UNCHANGED <<req, completed, wrecked>>

\* GetPARSession: an unknown or revoked session is ErrNotFound, which changes nothing.
GetPARSession(r, u) ==
    /\ req[r] = Idle
    /\ par[u] = "fresh"
    /\ req' = [req EXCEPT ![r] = [pc |-> "delete", uri |-> u]]
    /\ UNCHANGED <<par, completed, wrecked>>

\* A revocation that does not check how many rows it changed.
DeletePARSession_Unchecked(r) ==
    /\ req[r].pc = "delete"
    /\ par' = [par EXCEPT ![req[r].uri] = "revoked"]
    /\ req' = [req EXCEPT ![r].pc = "decide"]
    /\ UNCHANGED <<completed, wrecked>>

\* DeletePARSession: RevokeOAuth2PushedAuthorizationSession updates the row only while
\* it is not revoked, and checkSingleUpdateResult fails the request otherwise.
DeletePARSession(r) ==
    /\ req[r].pc = "delete"
    /\ IF par[req[r].uri] = "fresh"
       THEN /\ par' = [par EXCEPT ![req[r].uri] = "revoked"]
            /\ req' = [req EXCEPT ![r].pc = "decide"]
       ELSE /\ req' = [req EXCEPT ![r] = Idle]
            /\ UNCHANGED par
    /\ UNCHANGED <<completed, wrecked>>

\* The request passes every check: NewAuthorizeResponse issues the code or the tokens.
\* The session stays revoked, also when storing the consent's granted mark fails.
Issue(r) ==
    /\ req[r].pc = "decide"
    /\ completed' = [completed EXCEPT ![req[r].uri] = @ + 1]
    /\ req' = [req EXCEPT ![r] = Idle]
    /\ UNCHANGED <<par, wrecked>>

\* The user has to log in or to consent: a consent session is saved and
\* handleOAuth2PushedAuthorizeConsent loads the row.
AskUser(r) ==
    /\ req[r].pc = "decide"
    /\ req' = [req EXCEPT ![r].pc = "restore"]
    /\ UNCHANGED <<par, completed, wrecked>>

\* UpdateOAuth2PushedAuthorizationSession writes the row back with revoked cleared;
\* then the browser is redirected.
Restore(r) ==
    /\ req[r].pc = "restore"
    /\ par' = [par EXCEPT ![req[r].uri] = "fresh"]
    /\ req' = [req EXCEPT ![r] = Idle]
    /\ UNCHANGED <<completed, wrecked>>

\* The request is refused, a statement fails (the failure to make the session available
\* is only a warning), or the process stops: the session stays revoked.
Fail(r) ==
    /\ req[r].pc \in Holding
    /\ wrecked' = wrecked \cup {req[r].uri}
    /\ req' = [req EXCEPT ![r] = Idle]
    /\ UNCHANGED <<par, completed>>

Next ==
    \/ \E u \in URIs : Push(u)
    \/ \E r \in Requests :
          \/ \E u \in URIs : GetPARSession(r, u)
          \/ DeletePARSession(r)
          \/ Issue(r)
          \/ AskUser(r)
          \/ Restore(r)
          \/ Fail(r)

Spec == Init /\ [][Next]_vars

-----------------------------------------------------------------------------
Holds(r, u) == req[r].pc \in Holding /\ req[r].uri = u

\* The variables have the values the handlers give them, and a request in progress has
\* a request_uri.
TypeOK ==
    /\ par \in [URIs -> {"none", "fresh", "revoked"}]
    /\ req \in [Requests -> {Idle} \cup [pc : {"delete", "decide", "restore"}, uri : URIs]]
    /\ completed \in [URIs -> Nat]
    /\ wrecked \subseteq URIs

\* However many authorization requests race for a request_uri, and however often the
\* user is asked in between, at most one authorization is issued for it.
CompletedOnce == \A u \in URIs : completed[u] <= 1

\* A request_uri that was pushed, has not been used for an authorization, was not left
\* behind by a failed request and is not in a request's hands can still be used: being
\* sent to the login or consent page never costs the client its request_uri.
AvailableForConsent ==
    \A u \in URIs :
        (/\ par[u] # "none"
         /\ completed[u] = 0
         /\ u \notin wrecked
         /\ \A r \in Requests : ~Holds(r, u)) => par[u] = "fresh"

\* No step makes a request_uri usable again after an authorization was issued for it.
StaysSpent == [][\A u \in URIs : completed[u] > 0 => par'[u] = "revoked"]_vars

\* The strengthening the proofs use: only one request holds a session, a held session is
\* revoked, and the history agrees with the row.
HoldInv ==
    \A u \in URIs :
        /\ \A r, s \in Requests : Holds(r, u) /\ Holds(s, u) => r = s
        /\ \A r \in Requests : Holds(r, u) => par[u] = "revoked" /\ completed[u] = 0
        /\ par[u] # "revoked" => completed[u] = 0
        /\ \A r \in Requests : req[r].uri = u => par[u] # "none"

IInv == TypeOK /\ HoldInv /\ CompletedOnce /\ AvailableForConsent

----------------------------------------------------------------------------
(* Proofs, for any sets of request URIs and of concurrent authorization    *)
(* requests.                                                               *)

\* The records an authorization request is in while it is served.
Active == [pc : {"delete", "decide", "restore"}, uri : URIs]

\* A request that is served works on a request_uri.
LEMMA ServedURI ==
    ASSUME TypeOK, NEW r \in Requests, req[r].pc # "idle"
    PROVE  req[r] \in Active /\ req[r].uri \in URIs
BY DEF TypeOK, Active, Idle

\* An idle request holds nothing.
LEMMA IdleHoldsNothing == Idle.pc \notin Holding /\ Idle.uri = NoURI
BY DEF Idle, Holding

\* Before anything is pushed the strengthened invariant holds.
LEMMA InitInv == Init => IInv
BY IdleHoldsNothing, PushedAssumption
   DEF Init, IInv, TypeOK, HoldInv, CompletedOnce, AvailableForConsent, Holds, Idle, Holding

\* Pushing stores a session nobody holds yet.
LEMMA PushInv ==
    ASSUME IInv, NEW u \in URIs, Push(u)
    PROVE  IInv'
BY DEF Push, IInv, TypeOK, HoldInv, CompletedOnce, AvailableForConsent, Holds, Holding

\* Loading the session changes no row, and the request that loaded it holds nothing.
LEMMA GetInv ==
    ASSUME IInv, NEW r \in Requests, NEW u \in URIs, GetPARSession(r, u)
    PROVE  IInv'
<1>1. TypeOK'
  BY DEF GetPARSession, IInv, TypeOK
<1>2. \A s \in Requests, v \in URIs : Holds(s, v)' <=> Holds(s, v)
  BY IdleHoldsNothing DEF GetPARSession, IInv, TypeOK, Holds, Holding
<1>3. \A s \in Requests : req'[s].uri = req[s].uri \/ (s = r /\ req'[s].uri = u)
  BY DEF GetPARSession, IInv, TypeOK
<1> QED
  BY <1>1, <1>2, <1>3 DEF GetPARSession, IInv, HoldInv, CompletedOnce, AvailableForConsent

\* Only one request turns the row from fresh to revoked; it becomes the holder.
LEMMA DeleteInv ==
    ASSUME IInv, NEW r \in Requests, DeletePARSession(r)
    PROVE  IInv'
<1> DEFINE u == req[r].uri
<1>1. u \in URIs /\ req[r] \in Active
  BY ServedURI DEF DeletePARSession, IInv
<1>2. CASE par[u] = "fresh"
  <2>1. req'[r] = [pc |-> "decide", uri |-> u] /\ \A s \in Requests \ {r} : req'[s] = req[s]
    BY <1>1, <1>2 DEF DeletePARSession, IInv, TypeOK, Active
  <2>2. TypeOK'
    BY <1>1, <1>2, <2>1 DEF DeletePARSession, IInv, TypeOK
  <2>3. \A s \in Requests : ~Holds(s, u)
    BY <1>1, <1>2 DEF IInv, HoldInv
  <2>4. \A s \in Requests, v \in URIs : Holds(s, v)' <=> (Holds(s, v) \/ (s = r /\ v = u))
    BY <1>1, <2>1 DEF Holds, Holding, Active, DeletePARSession
  <2>5. par' = [par EXCEPT ![u] = "revoked"] /\ completed' = completed /\ wrecked' = wrecked
    BY <1>2 DEF DeletePARSession
  <2>6. \A s \in Requests : req'[s].uri = req[s].uri
    BY <2>1
  <2> HIDE DEF u
  <2> QED
    BY SMTT(30), <1>1, <1>2, <2>2, <2>3, <2>4, <2>5, <2>6
       DEF IInv, TypeOK, HoldInv, CompletedOnce, AvailableForConsent
<1>3. CASE par[u] # "fresh"
  <2>1. req'[r] = Idle /\ \A s \in Requests \ {r} : req'[s] = req[s]
    BY <1>3 DEF DeletePARSession, IInv, TypeOK
  <2>2. TypeOK'
    BY <1>3 DEF DeletePARSession, IInv, TypeOK
  <2>3. \A s \in Requests, v \in URIs : Holds(s, v)' <=> Holds(s, v)
    BY <2>1, IdleHoldsNothing DEF Holds, Holding, DeletePARSession
  <2>4. \A s \in Requests : req'[s].uri = req[s].uri \/ req'[s].uri = NoURI
    BY <2>1, IdleHoldsNothing
  <2>5. par' = par /\ completed' = completed /\ wrecked' = wrecked
    BY <1>3 DEF DeletePARSession
  <2> QED
    BY <2>2, <2>3, <2>4, <2>5, PushedAssumption
       DEF IInv, HoldInv, CompletedOnce, AvailableForConsent
<1> QED
  BY <1>2, <1>3

\* A holder that ends lets go of its request_uri, and of nothing else.
LEMMA LetsGo ==
    ASSUME IInv, NEW r \in Requests, req[r].pc \in Holding,
           req' = [req EXCEPT ![r] = Idle]
    PROVE  /\ req[r].uri \in URIs
           /\ par[req[r].uri] = "revoked"
           /\ completed[req[r].uri] = 0
           /\ req' \in [Requests -> {Idle} \cup Active]
           /\ \A s \in Requests, v \in URIs :
                 Holds(s, v)' <=> Holds(s, v) /\ v # req[r].uri
           /\ \A s \in Requests : req'[s].uri = req[s].uri \/ req'[s].uri = NoURI
<1>1. req[r].uri \in URIs
  BY ServedURI DEF IInv, Holding
<1>2. Holds(r, req[r].uri)
  BY DEF Holds
<1>3. par[req[r].uri] = "revoked" /\ completed[req[r].uri] = 0
  BY <1>1, <1>2 DEF IInv, HoldInv
<1>4. req' \in [Requests -> {Idle} \cup Active]
  BY DEF IInv, TypeOK, Active
<1>5. req'[r] = Idle /\ \A s \in Requests \ {r} : req'[s] = req[s]
  BY DEF IInv, TypeOK
<1>6. \A s \in Requests : Holds(s, req[r].uri) => s = r
  BY <1>1, <1>2 DEF IInv, HoldInv
<1>7. \A s \in Requests, v \in URIs : Holds(s, v)' <=> Holds(s, v) /\ v # req[r].uri
  BY <1>5, <1>6, IdleHoldsNothing DEF Holds
<1>8. \A s \in Requests : req'[s].uri = req[s].uri \/ req'[s].uri = NoURI
  BY <1>5, IdleHoldsNothing
<1> QED
  BY <1>1, <1>3, <1>4, <1>7, <1>8

\* The holder issues the only authorization of its request_uri.
LEMMA IssueInv ==
    ASSUME IInv, NEW r \in Requests, Issue(r)
    PROVE  IInv'
<1> DEFINE u == req[r].uri
<1>1. req[r].pc \in Holding /\ req' = [req EXCEPT ![r] = Idle]
  BY DEF Issue, Holding
<1>2. /\ u \in URIs
      /\ par[u] = "revoked"
      /\ completed[u] = 0
      /\ req' \in [Requests -> {Idle} \cup Active]
      /\ \A s \in Requests, v \in URIs : Holds(s, v)' <=> Holds(s, v) /\ v # u
      /\ \A s \in Requests : req'[s].uri = req[s].uri \/ req'[s].uri = NoURI
  BY <1>1, LetsGo
<1>3. par' = par /\ wrecked' = wrecked /\ completed' = [completed EXCEPT ![u] = @ + 1]
  BY DEF Issue
<1> HIDE DEF u
<1>4. TypeOK'
  BY <1>2, <1>3 DEF IInv, TypeOK, Active
<1>5. completed'[u] = 1 /\ \A v \in URIs \ {u} : completed'[v] = completed[v]
  BY <1>2, <1>3 DEF IInv, TypeOK
<1> QED
  BY <1>2, <1>3, <1>4, <1>5, PushedAssumption
     DEF IInv, TypeOK, HoldInv, CompletedOnce, AvailableForConsent

\* Deciding to ask the user keeps the request the holder.
LEMMA AskInv ==
    ASSUME IInv, NEW r \in Requests, AskUser(r)
    PROVE  IInv'
<1>1. req[r] \in Active
  BY ServedURI DEF AskUser, IInv
<1>2. req'[r] = [pc |-> "restore", uri |-> req[r].uri] /\ \A s \in Requests \ {r} : req'[s] = req[s]
  BY <1>1 DEF AskUser, IInv, TypeOK, Active
<1>3. TypeOK'
  BY <1>1, <1>2 DEF AskUser, IInv, TypeOK, Active
<1>4. \A s \in Requests, v \in URIs : Holds(s, v)' <=> Holds(s, v)
  BY <1>2 DEF AskUser, Holds, Holding
<1>5. \A s \in Requests : req'[s].uri = req[s].uri
  BY <1>2
<1> QED
  BY <1>3, <1>4, <1>5 DEF AskUser, IInv, HoldInv, CompletedOnce, AvailableForConsent

\* Giving the session back leaves it fresh and without a holder.
LEMMA RestoreInv ==
    ASSUME IInv, NEW r \in Requests, Restore(r)
    PROVE  IInv'
<1> DEFINE u == req[r].uri
<1>1. req[r].pc \in Holding /\ req' = [req EXCEPT ![r] = Idle]
  BY DEF Restore, Holding
<1>2. /\ u \in URIs
      /\ par[u] = "revoked"
      /\ completed[u] = 0
      /\ req' \in [Requests -> {Idle} \cup Active]
      /\ \A s \in Requests, v \in URIs : Holds(s, v)' <=> Holds(s, v) /\ v # u
      /\ \A s \in Requests : req'[s].uri = req[s].uri \/ req'[s].uri = NoURI
  BY <1>1, LetsGo
<1>3. par' = [par EXCEPT ![u] = "fresh"] /\ completed' = completed /\ wrecked' = wrecked
  BY DEF Restore
<1> HIDE DEF u
<1>4. TypeOK'
  BY <1>2, <1>3 DEF IInv, TypeOK, Active
<1> QED
  BY <1>2, <1>3, <1>4, PushedAssumption
     DEF IInv, TypeOK, HoldInv, CompletedOnce, AvailableForConsent

\* A holder that fails leaves a revoked session behind, which the history records.
LEMMA FailInv ==
    ASSUME IInv, NEW r \in Requests, Fail(r)
    PROVE  IInv'
<1> DEFINE u == req[r].uri
<1>1. req[r].pc \in Holding /\ req' = [req EXCEPT ![r] = Idle]
  BY DEF Fail
<1>2. /\ u \in URIs
      /\ par[u] = "revoked"
      /\ completed[u] = 0
      /\ req' \in [Requests -> {Idle} \cup Active]
      /\ \A s \in Requests, v \in URIs : Holds(s, v)' <=> Holds(s, v) /\ v # u
      /\ \A s \in Requests : req'[s].uri = req[s].uri \/ req'[s].uri = NoURI
  BY <1>1, LetsGo
<1>3. par' = par /\ completed' = completed /\ wrecked' = wrecked \cup {u}
  BY DEF Fail
<1> HIDE DEF u
<1>4. TypeOK'
  BY <1>2, <1>3 DEF IInv, TypeOK, Active
<1> QED
  BY <1>2, <1>3, <1>4, PushedAssumption
     DEF IInv, TypeOK, HoldInv, CompletedOnce, AvailableForConsent

\* Every step keeps the strengthened invariant.
LEMMA StepInv == IInv /\ [Next]_vars => IInv'
<1> SUFFICES ASSUME IInv, [Next]_vars PROVE IInv'
  OBVIOUS
<1>1. CASE UNCHANGED vars
  BY <1>1 DEF vars, IInv, TypeOK, HoldInv, CompletedOnce, AvailableForConsent, Holds
<1>2. CASE Next
  BY <1>2, PushInv, GetInv, DeleteInv, IssueInv, AskInv, RestoreInv, FailInv DEF Next
<1> QED
  BY <1>1, <1>2

\* The strengthened invariant holds throughout.
THEOREM Invariance == Spec => []IInv
BY InitInv, StepInv, PTL DEF Spec

\* The variables keep their types.
THEOREM TypeCorrect == Spec => []TypeOK
<1>1. IInv => TypeOK
  BY DEF IInv
<1> QED
  BY <1>1, Invariance, PTL

\* For any number of concurrent authorization requests, a request_uri leads to at most
\* one authorization.
THEOREM IssuedOnce == Spec => []CompletedOnce
<1>1. IInv => CompletedOnce
  BY DEF IInv
<1> QED
  BY <1>1, Invariance, PTL

\* Asking the user to log in or to consent never uses a request_uri up.
THEOREM ConsentKeepsURI == Spec => []AvailableForConsent
<1>1. IInv => AvailableForConsent
  BY DEF IInv
<1> QED
  BY <1>1, Invariance, PTL

\* Once an authorization was issued its request_uri is never usable again.
THEOREM SpentForever == Spec => StaysSpent
<1> DEFINE Spent == \A u \in URIs : completed[u] > 0 => par'[u] = "revoked"
<1>1. IInv /\ [Next]_vars => [Spent]_vars
  <2> SUFFICES ASSUME IInv, Next, NEW u \in URIs, completed[u] > 0
               PROVE  par'[u] = "revoked"
    BY DEF vars
  <2>1. IInv'
    BY StepInv
  <2>2. completed[u] \in Nat /\ completed'[u] \in Nat
    BY <2>1 DEF IInv, TypeOK
  <2>3. completed'[u] >= completed[u]
    BY <2>2 DEF Next, Push, GetPARSession, DeletePARSession, Issue, AskUser, Restore, Fail,
                IInv, TypeOK
  <2>4. completed'[u] # 0
    BY <2>2, <2>3
  <2> QED
    BY <2>1, <2>4 DEF IInv, HoldInv
<1> QED
  BY <1>1, Invariance, PTL DEF Spec, StaysSpent
==============================================================================
