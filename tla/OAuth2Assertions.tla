-------------------------- MODULE OAuth2Assertions --------------------------
(***************************************************************************)
(* The identifiers (jti) of the JWT assertions clients authenticate with.  *)
(* A used jti is stored until the assertion expires; the token endpoint    *)
(* looks it up before it accepts an assertion and stores it afterwards.    *)
(* That the library refuses expired assertions, and the order of the two   *)
(* calls, are external.                                                    *)
(***************************************************************************)
EXTENDS Naturals

CONSTANTS
    Assertions,     \* signed assertions: records with a jti and an exp
    Requests,       \* token requests at a time
    MaxTime,        \* bound on the clock
    Serial,         \* TRUE: requests with one jti do not overlap
    None

JTIs == {a.jti : a \in Assertions}

AssertionsAssumption ==
    /\ \A a \in Assertions : a.exp \in Nat
    /\ MaxTime \in Nat
    /\ Serial \in BOOLEAN
    /\ None \notin Assertions

VARIABLES
    now,
    blacklist,  \* the rows of oauth2_blacklisted_jti: when each known jti expires
    req,        \* the assertion each request has checked and not yet stored
    accepted    \* history: how often each assertion authenticated a client

vars == <<now, blacklist, req, accepted>>

Init ==
    /\ now = 0
    /\ blacklist = << >>
    /\ req = [r \in Requests |-> None]
    /\ accepted = [a \in Assertions |-> 0]

Tick ==
    /\ now < MaxTime
    /\ now' = now + 1
    /\ UNCHANGED <<blacklist, req, accepted>>

\* The row is there and expires after now.
KnownJTI(jti) == jti \in DOMAIN blacklist /\ blacklist[jti] > now

\* ClientAssertionJWTValid: ErrJTIKnown ends the request and changes nothing.
ClientAssertionJWTValid(r, a) ==
    /\ req[r] = None
    /\ a.exp > now
    /\ Serial => \A s \in Requests : req[s] # None => req[s].jti # a.jti
    /\ ~KnownJTI(a.jti)
    /\ req' = [req EXCEPT ![r] = a]
    /\ UNCHANGED <<now, blacklist, accepted>>

\* SetClientAssertionJWT: the row is inserted or replaced, and the client is
\* authenticated.
SetClientAssertionJWT(r) ==
    /\ req[r] # None
    /\ blacklist' = [j \in DOMAIN blacklist \cup {req[r].jti} |->
                        IF j = req[r].jti THEN req[r].exp ELSE blacklist[j]]
    /\ accepted' = [accepted EXCEPT ![req[r]] = @ + 1]
    /\ req' = [req EXCEPT ![r] = None]
    /\ UNCHANGED now

\* The request fails before the jti is stored.
Fail(r) ==
    /\ req[r] # None
    /\ req' = [req EXCEPT ![r] = None]
    /\ UNCHANGED <<now, blacklist, accepted>>

Next ==
    \/ Tick
    \/ \E r \in Requests :
          \/ \E a \in Assertions : ClientAssertionJWTValid(r, a)
          \/ SetClientAssertionJWT(r)
          \/ Fail(r)

Spec == Init /\ [][Next]_vars

-----------------------------------------------------------------------------
\* The variables have the values the store gives them.
TypeOK ==
    /\ now \in 0 .. MaxTime
    /\ DOMAIN blacklist \subseteq JTIs
    /\ \A j \in DOMAIN blacklist : \E a \in Assertions : a.jti = j /\ a.exp = blacklist[j]
    /\ req \in [Requests -> Assertions \cup {None}]
    /\ accepted \in [Assertions -> Nat]

\* While requests with one jti do not overlap, no assertion authenticates a client
\* twice, also when an expired jti is used again in a new assertion.
AcceptedOnce == \A a \in Assertions : accepted[a] <= 1
==============================================================================
