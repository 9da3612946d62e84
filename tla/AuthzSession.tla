---------------------------- MODULE AuthzSession ----------------------------
(***************************************************************************)
(* The cookie strategy of the authorization handlers over time: how long a *)
(* request may be decided on the profile stored in a session, and how long *)
(* an unused session lives.  Requests of one browser load the session      *)
(* document, validate it, ask the user backend for the profile when it is  *)
(* due and write the whole document back, interleaved at every call, while *)
(* administrators change and remove the user.                              *)
(***************************************************************************)
EXTENDS Integers

CONSTANTS
    Requests,       \* authorization requests at a time
    Refresh,        \* the refresh interval; 0 is always, NoRefresh is never
    NoRefresh,
    Inactivity,     \* the session inactivity; 0 switches it off
    Extended,       \* TRUE: the strategy loads the extended profile as well
    Slow,           \* bound on how long the backend takes to answer
    MaxTime,        \* bound on the clock
    MaxVersion      \* bound on the changes to the user

AuthzSessionAssumption ==
    /\ Refresh \in Nat \cup {NoRefresh}
    /\ NoRefresh \notin Nat
    /\ {Inactivity, Slow, MaxTime, MaxVersion} \subseteq Nat
    /\ Extended \in BOOLEAN

VARIABLES
    now,
    profile,    \* the user in the backend: the version of the profile, 0 when removed
    ended,      \* when each version of the profile was replaced
    doc,        \* the session document in the store
    req,        \* the requests
    used        \* history: when a request was last let through for the session

vars == <<now, profile, ended, doc, req, used>>

Always == 0
Running == MaxTime + 1      \* the end of a version that is still in place

\* A document: who it is for, what is known of them and until when.  The activity of an
\* anonymous visitor is stored too but never read.
Anonymous == [user |-> FALSE, keep |-> FALSE, activity |-> 0, ttl |-> 0, version |-> 0]

Idle == [pc |-> "idle", doc |-> Anonymous, got |-> 0, at |-> 0, late |-> FALSE, stale |-> FALSE,
         modified |-> FALSE]

\* The user has just logged in, with or without the remember me box.
Init ==
    /\ now = 0
    /\ profile = 1
    /\ ended = [v \in 1 .. MaxVersion |-> Running]
    /\ \E keep \in BOOLEAN :
          doc = [user |-> TRUE, keep |-> keep, activity |-> 0, version |-> 1,
                 ttl |-> IF Refresh = NoRefresh THEN 0 ELSE Refresh]
    /\ req = [r \in Requests |-> Idle]
    /\ used = 0

-----------------------------------------------------------------------------
(* The environment *)

\* Time passes; the backend answers within Slow.
Tick ==
    /\ now < MaxTime
    /\ \A r \in Requests : req[r].pc = "stamp" => now - req[r].at < Slow
    /\ now' = now + 1
    /\ UNCHANGED <<profile, ended, doc, req, used>>

\* An administrator changes the user's groups, or removes the user.
ChangeUser ==
    /\ profile \in 1 .. MaxVersion - 1
    /\ profile' \in {profile + 1, 0}
    /\ ended' = [ended EXCEPT ![profile] = now]
    /\ UNCHANGED <<now, doc, req, used>>

-----------------------------------------------------------------------------
(* The request *)

\* CookieSessionAuthnStrategy.Get loads the document.  One that was issued for another
\* cookie domain is replaced by a new session (moved).
GetSession(r, moved) ==
    /\ req[r] = Idle
    /\ req' = [req EXCEPT ![r] = [Idle EXCEPT !.pc = "validate",
                                              !.doc = IF moved THEN Anonymous ELSE doc]]
    /\ doc' = IF moved THEN Anonymous ELSE doc
    /\ UNCHANGED <<now, profile, ended, used>>

\* handleAuthnCookieValidateInactivity.
Inactive(d) == d.user /\ ~d.keep /\ Inactivity # 0 /\ d.activity + Inactivity < now

\* handleSessionValidateRefresh asks the backend.
RefreshDue(d) == Refresh # NoRefresh /\ d.user /\ (Refresh = Always \/ d.ttl <= now)

Ending == [Idle EXCEPT !.pc = "destroy"]

\* The end of handleAuthnCookieValidate: a session that is not remembered was active now.
\* The Session-Username header, where it is sent and does not match, ends the session.
Validated(r, d, mismatch) ==
    IF mismatch
    THEN Ending
    ELSE [req[r] EXCEPT !.pc = "save", !.at = now,
                        !.got = 0, !.modified = ~d.keep \/ d # req[r].doc,
                        !.doc = IF d.user /\ ~d.keep THEN [d EXCEPT !.activity = now] ELSE d]

\* Whether the request was let through as the user.
Through(s) == s.pc = "save" /\ s.doc.user

LetThrough(r) == used' = IF Through(req'[r]) THEN now ELSE used

\* handleAuthnCookieValidate up to the call of the backend, or to its end without one.
Validate(r, mismatch) ==
    /\ req[r].pc = "validate"
    /\ req' = [req EXCEPT ![r] =
                  LET next == IF Inactive(req[r].doc) THEN Ending
                              ELSE IF RefreshDue(req[r].doc) THEN [@ EXCEPT !.pc = "ask"]
                              ELSE Validated(r, req[r].doc, mismatch)
                  IN  IF next = Ending THEN Ending
                      ELSE [next EXCEPT !.late = Inactivity # 0 /\ now - used > Inactivity]]
    /\ LetThrough(r)
    /\ UNCHANGED <<now, profile, ended, doc>>

\* GetDetails reads the user; the answer is on its way.
GetDetails(r, fails) ==
    /\ req[r].pc = "ask"
    /\ req' = [req EXCEPT ![r].pc = "stamp", ![r].at = now, ![r].stale = fails,
                          ![r].got = IF fails THEN -1 ELSE profile]
    /\ UNCHANGED <<now, profile, ended, doc, used>>

\* The document with the answer: the time of the next refresh counts from now.
Refreshed(d, version) ==
    [d EXCEPT !.version = version, !.ttl = IF Refresh = Always THEN @ ELSE now + Refresh]

\* A handler that also postpones the next refresh when the backend gave no answer.
Stamp_Postponed(r, mismatch) ==
    /\ req[r].pc = "stamp"
    /\ req' = [req EXCEPT ![r] =
                  IF req[r].got = 0 THEN Ending
                  ELSE IF req[r].got = -1
                  THEN Validated(r, Refreshed(req[r].doc, req[r].doc.version), mismatch)
                  ELSE Validated(r, Refreshed(req[r].doc, req[r].got), mismatch)]
    /\ LetThrough(r)
    /\ UNCHANGED <<now, profile, ended, doc>>

\* The rest of handleSessionValidateRefresh: a user that is gone ends the session, an
\* error leaves it as it is, an answer is taken over.
Stamp(r, mismatch) ==
    /\ req[r].pc = "stamp"
    /\ req' = [req EXCEPT ![r] =
                  IF req[r].got = 0 THEN Ending
                  ELSE IF req[r].got = -1 THEN Validated(r, req[r].doc, mismatch)
                  ELSE Validated(r, Refreshed(req[r].doc, req[r].got), mismatch)]
    /\ LetThrough(r)
    /\ UNCHANGED <<now, profile, ended, doc>>

\* SaveSession writes the whole document; its failure is only logged.  An unmodified
\* document is not written.
SaveSession(r, fails) ==
    /\ req[r].pc = "save"
    /\ doc' = IF req[r].modified /\ ~fails THEN req[r].doc ELSE doc
    /\ req' = [req EXCEPT ![r] =
                  IF ~req[r].doc.user THEN Idle
                  ELSE [@ EXCEPT !.pc = IF Extended THEN "extended" ELSE "done"]]
    /\ UNCHANGED <<now, profile, ended, used>>

\* DestroySession and the save of a new session; each may fail.  The answer is that of an
\* anonymous visitor.
DestroySession(r, fails) ==
    /\ req[r].pc = "destroy"
    /\ doc' = IF fails THEN doc ELSE Anonymous
    /\ req' = [req EXCEPT ![r] = Idle]
    /\ UNCHANGED <<now, profile, ended, used>>

\* GetDetailsExtended: an error, or a user that is gone, makes the visitor anonymous.
GetDetailsExtended(r, fails) ==
    /\ req[r].pc = "extended"
    /\ req' = [req EXCEPT ![r] = IF fails \/ profile = 0 THEN Idle
                                 ELSE [@ EXCEPT !.pc = "done", !.doc.version = profile,
                                                !.at = now, !.stale = FALSE]]
    /\ UNCHANGED <<now, profile, ended, doc, used>>

\* The request is decided on the profile it carries.
Decide(r) ==
    /\ req[r].pc = "done"
    /\ req' = [req EXCEPT ![r] = Idle]
    /\ UNCHANGED <<now, profile, ended, doc, used>>

Next ==
    \/ Tick
    \/ ChangeUser
    \/ \E r \in Requests :
          \/ \E b \in BOOLEAN :
                \/ GetSession(r, b)
                \/ Validate(r, b)
                \/ GetDetails(r, b)
                \/ Stamp(r, b)
                \/ SaveSession(r, b)
                \/ DestroySession(r, b)
                \/ GetDetailsExtended(r, b)
          \/ Decide(r)

Spec == Init /\ [][Next]_vars

-----------------------------------------------------------------------------
Doc == [user : BOOLEAN, keep : BOOLEAN, activity : 0 .. MaxTime, ttl : 0 .. 2 * MaxTime,
        version : 0 .. MaxVersion]

\* The variables have the values the handlers give them; an anonymous document knows nobody.
TypeOK ==
    /\ now \in 0 .. MaxTime
    /\ profile \in 0 .. MaxVersion
    /\ ended \in [1 .. MaxVersion -> 0 .. Running]
    /\ \A d \in {doc} \cup {req[r].doc : r \in Requests} : d \in Doc /\ (d.user <=> d.version # 0)
    /\ \A r \in Requests :
          /\ req[r].pc \in {"idle", "validate", "ask", "stamp", "save", "destroy", "extended", "done"}
          /\ req[r].got \in -1 .. MaxVersion /\ req[r].at \in 0 .. now
    /\ used \in 0 .. now

\* A request the handler lets through as the user.
Passed(r) == req[r].pc \in {"save", "done"} /\ req[r].doc.user

\* The profile a request is decided on was still the user's no longer ago than the refresh
\* interval and the time the backend takes, counted from when the request was validated,
\* unless the backend failed to answer this very request.  Documents written by requests
\* that overlap, and sessions that come back after they were destroyed, do not extend this.
ProfileCurrent ==
    Refresh # NoRefresh =>
        \A r \in Requests : Passed(r) /\ ~req[r].stale =>
            ended[req[r].doc.version] >= req[r].at - (Refresh + Slow)

\* A request for a session that is not remembered is let through only when, at the time
\* its session is validated, the last one let through is no longer ago than the inactivity.
InactivityEnds ==
    \A r \in Requests : Passed(r) /\ ~req[r].doc.keep => ~req[r].late
==============================================================================
