-------------------------- MODULE CredentialCache --------------------------
(***************************************************************************)
(* The credential cache of the basic scheme (CredentialCacheHMAC).  A      *)
(* request that presents credentials joins the check of the same           *)
(* credentials that is in flight, if there is one; the check looks in the  *)
(* cache, asks the user backend and stores a success.  One user, whose     *)
(* password is changed meanwhile.                                          *)
(***************************************************************************)
EXTENDS Integers, TLAPS

CONSTANTS
    Requests,       \* requests with credentials at a time
    Passwords,
    Lifespan,       \* how long a success is cached
    Slow,           \* bound on how long a check takes
    MaxTime,        \* bound on the clock
    None

ASSUME CredentialCacheAssumption ==
    /\ Lifespan \in Nat \ {0} /\ Slow \in Nat /\ MaxTime \in Nat
    /\ None \notin Passwords

VARIABLES
    now,
    password,   \* the password in the backend
    retired,    \* history: when each password stopped being valid
    entry,      \* the cached credential and when it expires
    flight,     \* the check in flight for each password
    waiting     \* the requests that wait for each flight

vars == <<now, password, retired, entry, flight, waiting>>

Flights == [pc : {"none", "lookup", "verify", "put", "answer"}, valid : BOOLEAN, at : Nat]

NoEntry == [pass |-> None, expires |-> 0]
NoFlight == [pc |-> "none", valid |-> FALSE, at |-> 0]
Valid == MaxTime + 1    \* when a password that is still valid was retired

Init ==
    /\ now = 0
    /\ \E p \in Passwords :
          /\ password = p
          /\ retired = [q \in Passwords |-> IF q = p THEN Valid ELSE 0]
    /\ entry = NoEntry
    /\ flight = [p \in Passwords |-> NoFlight]
    /\ waiting = [r \in Requests |-> None]

\* Time passes; no check takes longer than Slow.
Tick ==
    /\ now < MaxTime
    /\ \A p \in Passwords : flight[p].pc # "none" => now - flight[p].at < Slow
    /\ now' = now + 1
    /\ UNCHANGED <<password, retired, entry, flight, waiting>>

\* The password is changed to one that was not used before.
ChangePassword(p) ==
    /\ retired[p] = 0 /\ now > 0
    /\ password' = p
    /\ retired' = [retired EXCEPT ![password] = now, ![p] = Valid]
    /\ UNCHANGED <<now, entry, flight, waiting>>

-----------------------------------------------------------------------------
\* Check: the singleflight group runs the function once for all requests that present
\* the same credentials while it runs.
Check(r, p) ==
    /\ waiting[r] = None
    /\ waiting' = [waiting EXCEPT ![r] = p]
    /\ flight' = IF flight[p].pc = "none"
                 THEN [flight EXCEPT ![p] = [pc |-> "lookup", valid |-> FALSE, at |-> now]]
                 ELSE flight
    /\ UNCHANGED <<now, password, retired, entry>>

\* An entry that is trusted whatever its age.
Expired_Never == FALSE

Expired == entry.expires < now

Matches(p) == entry.pass = p

\* valid, under the mutex: an expired entry is removed, a live one compared.
Lookup(p) ==
    /\ flight[p].pc = "lookup"
    /\ entry' = IF Expired THEN NoEntry ELSE entry
    /\ flight' = [flight EXCEPT ![p] = IF Matches(p) /\ ~Expired
                                       THEN [@ EXCEPT !.pc = "answer", !.valid = TRUE]
                                       ELSE [@ EXCEPT !.pc = "verify"]]
    /\ UNCHANGED <<now, password, retired, waiting>>

\* CheckUserPassword, or its failure: an error ends every request of the flight.
CheckUserPassword(p, fails) ==
    /\ flight[p].pc = "verify"
    /\ flight' = [flight EXCEPT ![p] =
                     IF ~fails /\ p = password THEN [@ EXCEPT !.pc = "put", !.valid = TRUE]
                     ELSE [@ EXCEPT !.pc = "answer"]]
    /\ UNCHANGED <<now, password, retired, entry, waiting>>

\* put, under the mutex: the entry of the user is replaced.
Put(p) ==
    /\ flight[p].pc = "put"
    /\ entry' = [pass |-> p, expires |-> now + Lifespan]
    /\ flight' = [flight EXCEPT ![p].pc = "answer"]
    /\ UNCHANGED <<now, password, retired, waiting>>

\* The flight ends: every request that waits for it gets its result.
Answer(p) ==
    /\ flight[p].pc = "answer"
    /\ flight' = [flight EXCEPT ![p] = NoFlight]
    /\ waiting' = [r \in Requests |-> IF waiting[r] = p THEN None ELSE waiting[r]]
    /\ UNCHANGED <<now, password, retired, entry>>

Next ==
    \/ Tick
    \/ \E p \in Passwords :
          \/ ChangePassword(p)
          \/ Lookup(p)
          \/ \E fails \in BOOLEAN : CheckUserPassword(p, fails)
          \/ Put(p)
          \/ Answer(p)
          \/ \E r \in Requests : Check(r, p)

\* The scheduler runs a flight that can go on.
Checking(p) == Lookup(p) \/ (\E fails \in BOOLEAN : CheckUserPassword(p, fails)) \/ Put(p) \/ Answer(p)

Spec == Init /\ [][Next]_vars

FairSpec == Spec /\ \A p \in Passwords : WF_vars(Checking(p))

-----------------------------------------------------------------------------
\* The variables have the values the cache gives them, and a request waits for a flight
\* that is there.
TypeOK ==
    /\ now \in 0 .. MaxTime
    /\ password \in Passwords
    /\ retired \in [Passwords -> 0 .. Valid]
    /\ entry \in [pass : Passwords \cup {None}, expires : Nat]
    /\ flight \in [Passwords -> Flights]
    /\ waiting \in [Requests -> Passwords \cup {None}]
    /\ \A r \in Requests : waiting[r] # None => flight[waiting[r]].pc # "none"

\* Credentials are accepted only when they were the user's no longer ago than the
\* lifespan and the time a check takes: a changed password stops working when its entry
\* expires, also when the check of the old one was in flight during the change.
AcceptedWhileValid ==
    \A p \in Passwords : flight[p].pc = "answer" /\ flight[p].valid =>
        \/ password = p
        \/ retired[p] # 0 /\ retired[p] + Lifespan + 2 * Slow >= now

\* A password that was never the user's is not accepted, whatever is cached.
NeverAcceptsOthers ==
    \A p \in Passwords : retired[p] = 0 => ~flight[p].valid /\ entry.pass # p

\* What the cache accepts was checked: the two statements above.
CredentialsSound == TypeOK /\ NeverAcceptsOthers /\ AcceptedWhileValid

-----------------------------------------------------------------------------
(***************************************************************************)
(* Proof that the cache is sound for any number of requests and passwords, *)
(* any lifespan and any bound on a check.                                  *)
(***************************************************************************)

\* The password p was the user's at time t or later.
ValidSince(p, t) == retired[p] # 0 /\ (password = p \/ retired[p] >= t)

\* A password is retired when it stops being the one in the backend.
RetiredAtChange == retired[password] = Valid

\* A check knows when it began, and ends before it is too slow.
FlightsBounded ==
    \A p \in Passwords : flight[p].pc # "none" =>
        flight[p].at <= now /\ now <= flight[p].at + Slow

\* A success that is not yet stored was established after the check began; one that is
\* answered may rest on an entry that had not expired when the check began.
FlightsEarned ==
    \A p \in Passwords :
        /\ flight[p].pc = "put" => ValidSince(p, flight[p].at)
        /\ flight[p].valid => /\ flight[p].pc \in {"put", "answer"}
                              /\ ValidSince(p, flight[p].at - (Lifespan + Slow))

\* An entry expires a lifespan after it was stored, and what it holds was checked at
\* most a check's time before that.
EntryEarned ==
    entry.pass # None =>
        /\ entry.expires <= now + Lifespan
        /\ ValidSince(entry.pass, entry.expires - (Lifespan + Slow))

\* The inductive invariant.
IInv == TypeOK /\ RetiredAtChange /\ FlightsBounded /\ FlightsEarned /\ EntryEarned

\* Nothing is cached and nothing in flight when the provider is built.
LEMMA InitIInv == Init => IInv
<1> SUFFICES ASSUME Init PROVE IInv
  OBVIOUS
<1> USE CredentialCacheAssumption DEF Init, Valid, NoEntry, NoFlight
<1>1. TypeOK
  BY DEF TypeOK, Flights
<1>2. RetiredAtChange /\ FlightsBounded /\ FlightsEarned /\ EntryEarned
  BY DEF RetiredAtChange, FlightsBounded, FlightsEarned, EntryEarned
<1> QED
  BY <1>1, <1>2 DEF IInv

\* Time passing: no check outlives Slow, and what was earned stays so.
LEMMA TickIInv == IInv /\ Tick => IInv'
<1> SUFFICES ASSUME IInv, Tick PROVE IInv'
  OBVIOUS
<1> USE CredentialCacheAssumption DEF Tick, Valid
<1>1. TypeOK'
  BY DEF IInv, TypeOK, Flights
<1>2. RetiredAtChange'
  BY DEF IInv, RetiredAtChange
<1>3. FlightsBounded'
  BY DEF IInv, TypeOK, Flights, FlightsBounded
<1>4. FlightsEarned'
  BY DEF IInv, FlightsEarned, ValidSince
<1>5. EntryEarned'
  BY DEF IInv, TypeOK, Flights, EntryEarned, ValidSince
<1> QED
  BY <1>1, <1>2, <1>3, <1>4, <1>5 DEF IInv

\* A change of the password: what the old one earned, it earned until now.
LEMMA ChangePasswordIInv ==
    ASSUME IInv, NEW p \in Passwords, ChangePassword(p)
    PROVE  IInv'
<1> USE CredentialCacheAssumption DEF ChangePassword, Valid
<1>1. TypeOK'
  BY DEF IInv, TypeOK, Flights
<1>2. RetiredAtChange'
  BY DEF IInv, TypeOK, Flights, RetiredAtChange
<1>3. FlightsBounded'
  BY DEF IInv, FlightsBounded
<1>4. ASSUME NEW q \in Passwords, NEW t \in Int, t <= now, ValidSince(q, t)
      PROVE  ValidSince(q, t)'
  BY <1>4 DEF IInv, TypeOK, Flights, RetiredAtChange, ValidSince
<1>5. FlightsEarned'
  <2> SUFFICES ASSUME NEW q \in Passwords
               PROVE  /\ flight[q].pc = "put" => ValidSince(q, flight[q].at)'
                      /\ flight[q].valid =>
                            /\ flight[q].pc \in {"put", "answer"}
                            /\ ValidSince(q, flight[q].at - (Lifespan + Slow))'
    BY DEF FlightsEarned, ValidSince
  <2>1. /\ flight[q].at \in Nat /\ now \in Nat /\ Lifespan \in Nat /\ Slow \in Nat
        /\ flight[q].pc # "none" => flight[q].at <= now
    BY DEF IInv, TypeOK, Flights, FlightsBounded
  <2>2. CASE flight[q].pc = "put"
    BY <1>4, <2>1, <2>2 DEF IInv, FlightsEarned
  <2>3. CASE flight[q].pc # "put"
    BY <1>4, <2>1, <2>3 DEF IInv, FlightsEarned
  <2> QED
    BY <2>2, <2>3
<1>6. EntryEarned'
  BY <1>4 DEF IInv, TypeOK, Flights, EntryEarned, ValidSince
<1> QED
  BY <1>1, <1>2, <1>3, <1>5, <1>6 DEF IInv

\* A request that joins or begins a check.
LEMMA CheckIInv ==
    ASSUME IInv, NEW p \in Passwords, NEW r \in Requests, Check(r, p)
    PROVE  IInv'
<1> USE CredentialCacheAssumption DEF Check, Valid, NoFlight
<1>1. TypeOK'
  <2>1. flight' \in [Passwords -> Flights]
    <3>1. now \in Nat
      BY DEF IInv, TypeOK
    <3>2. [pc |-> "lookup", valid |-> FALSE, at |-> now] \in Flights
      BY <3>1 DEF Flights
    <3> QED
      BY <3>2 DEF IInv, TypeOK
  <2>2. waiting' \in [Requests -> Passwords \cup {None}]
    BY DEF IInv, TypeOK, Flights
  <2>3. ASSUME NEW o \in Requests, waiting'[o] # None PROVE flight'[waiting'[o]].pc # "none"
    BY <2>3 DEF IInv, TypeOK, Flights
  <2> QED
    BY <2>1, <2>2, <2>3 DEF IInv, TypeOK, Flights
<1>2. RetiredAtChange' /\ EntryEarned'
  BY DEF IInv, RetiredAtChange, EntryEarned, ValidSince
<1>3. FlightsBounded'
  BY DEF IInv, TypeOK, Flights, FlightsBounded
<1>4. FlightsEarned'
  BY DEF IInv, TypeOK, Flights, FlightsEarned, ValidSince
<1> QED
  BY <1>1, <1>2, <1>3, <1>4 DEF IInv

\* The look into the cache: an entry that has not expired was earned no longer than a
\* lifespan and a check's time before the look, hence before the check began.
LEMMA LookupIInv ==
    ASSUME IInv, NEW p \in Passwords, Lookup(p)
    PROVE  IInv'
<1> USE CredentialCacheAssumption DEF Lookup, Valid, NoEntry, Expired, Matches
<1>1. TypeOK'
  <2>1. flight' \in [Passwords -> Flights]
    <3>1. /\ [flight[p] EXCEPT !.pc = "answer", !.valid = TRUE] \in Flights
          /\ [flight[p] EXCEPT !.pc = "verify"] \in Flights
      BY DEF IInv, TypeOK, Flights
    <3> QED
      BY <3>1 DEF IInv, TypeOK
  <2>2. waiting' \in [Requests -> Passwords \cup {None}]
    BY DEF IInv, TypeOK, Flights
  <2>3. ASSUME NEW o \in Requests, waiting'[o] # None PROVE flight'[waiting'[o]].pc # "none"
    BY <2>3 DEF IInv, TypeOK, Flights
  <2> QED
    BY <2>1, <2>2, <2>3 DEF IInv, TypeOK, Flights
<1>2. RetiredAtChange' /\ EntryEarned'
  BY DEF IInv, RetiredAtChange, EntryEarned, ValidSince
<1>3. FlightsBounded'
  BY DEF IInv, TypeOK, Flights, FlightsBounded
<1>4. FlightsEarned'
  <2>1. ASSUME NEW q \in Passwords, NEW x
        PROVE  ValidSince(q, x)' <=> ValidSince(q, x)
    BY DEF ValidSince
  <2>2. CASE Matches(p) /\ ~Expired
    <3>1. /\ now \in Nat /\ entry.expires \in Nat /\ flight[p].at \in Nat
          /\ flight[p].at <= now /\ now <= entry.expires
      BY <2>2 DEF IInv, TypeOK, Flights, FlightsBounded
    <3>2. ValidSince(p, entry.expires - (Lifespan + Slow))
      BY <2>2 DEF IInv, EntryEarned
    <3>3. ValidSince(p, flight[p].at - (Lifespan + Slow))
      BY <3>1, <3>2 DEF IInv, TypeOK, ValidSince
    <3> QED
      BY <2>1, <2>2, <3>3 DEF IInv, TypeOK, Flights, FlightsEarned
  <2>3. CASE ~(Matches(p) /\ ~Expired)
    BY <2>1, <2>3 DEF IInv, TypeOK, Flights, FlightsEarned
  <2> QED
    BY <2>2, <2>3
<1> QED
  BY <1>1, <1>2, <1>3, <1>4 DEF IInv

\* The backend's answer: the password is the user's now, after the check began.
LEMMA CheckUserPasswordIInv ==
    ASSUME IInv, NEW p \in Passwords, NEW fails \in BOOLEAN, CheckUserPassword(p, fails)
    PROVE  IInv'
<1> USE CredentialCacheAssumption DEF CheckUserPassword, Valid
<1>1. TypeOK'
  <2>1. flight[p] \in Flights /\ flight \in [Passwords -> Flights]
    BY DEF IInv, TypeOK
  <2> DEFINE f == IF ~fails /\ p = password
                  THEN [flight[p] EXCEPT !.pc = "put", !.valid = TRUE]
                  ELSE [flight[p] EXCEPT !.pc = "answer"]
  <2>2. flight' = [flight EXCEPT ![p] = f]
    BY <2>1
  <2>3. f \in Flights /\ f.pc # "none"
    BY <2>1 DEF Flights
  <2> HIDE DEF f
  <2>4. flight' \in [Passwords -> Flights]
    BY <2>1, <2>2, <2>3
  <2>5. \A q \in Passwords : flight[q].pc # "none" => flight'[q].pc # "none"
    BY <2>1, <2>2, <2>3
  <2>6. \A r \in Requests : waiting'[r] # None => flight'[waiting'[r]].pc # "none"
    BY <2>5 DEF IInv, TypeOK
  <2> QED
    BY <2>4, <2>6 DEF IInv, TypeOK
<1>2. RetiredAtChange' /\ EntryEarned'
  BY DEF IInv, RetiredAtChange, EntryEarned, ValidSince
<1>3. FlightsBounded'
  BY DEF IInv, TypeOK, Flights, FlightsBounded
<1>4. FlightsEarned'
  BY DEF IInv, TypeOK, Flights, FlightsEarned, RetiredAtChange, ValidSince
<1> QED
  BY <1>1, <1>2, <1>3, <1>4 DEF IInv

\* The entry that is stored was checked since the check began.
LEMMA PutIInv ==
    ASSUME IInv, NEW p \in Passwords, Put(p)
    PROVE  IInv'
<1> USE CredentialCacheAssumption DEF Put, Valid
<1>1. TypeOK'
  BY DEF IInv, TypeOK, Flights
<1>2. RetiredAtChange'
  BY DEF IInv, RetiredAtChange
<1>3. FlightsBounded'
  BY DEF IInv, TypeOK, Flights, FlightsBounded
<1>4. FlightsEarned'
  BY DEF IInv, TypeOK, Flights, FlightsEarned, ValidSince
<1>5. EntryEarned'
  <2>1. flight[p].at \in Nat /\ now \in Nat /\ now <= flight[p].at + Slow
    BY DEF IInv, TypeOK, Flights, FlightsBounded
  <2>2. ValidSince(p, flight[p].at)
    BY DEF IInv, FlightsEarned
  <2>3. entry'.pass = p /\ entry'.expires = now + Lifespan
    OBVIOUS
  <2>4. ValidSince(p, now - Slow)
    BY <2>1, <2>2 DEF IInv, TypeOK, ValidSince
  <2> QED
    BY <2>1, <2>3, <2>4 DEF EntryEarned, ValidSince
<1> QED
  BY <1>1, <1>2, <1>3, <1>4, <1>5 DEF IInv

\* The end of a check.
LEMMA AnswerIInv ==
    ASSUME IInv, NEW p \in Passwords, Answer(p)
    PROVE  IInv'
<1> USE CredentialCacheAssumption DEF Answer, Valid, NoFlight
<1>1. TypeOK'
  <2>1. flight' \in [Passwords -> Flights]
    <3>1. NoFlight \in Flights
      BY DEF Flights
    <3> QED
      BY <3>1 DEF IInv, TypeOK
  <2>2. waiting' \in [Requests -> Passwords \cup {None}]
    BY DEF IInv, TypeOK, Flights
  <2>3. ASSUME NEW o \in Requests, waiting'[o] # None PROVE flight'[waiting'[o]].pc # "none"
    BY <2>3 DEF IInv, TypeOK, Flights
  <2> QED
    BY <2>1, <2>2, <2>3 DEF IInv, TypeOK, Flights
<1>2. RetiredAtChange' /\ EntryEarned'
  BY DEF IInv, RetiredAtChange, EntryEarned, ValidSince
<1>3. FlightsBounded'
  BY DEF IInv, TypeOK, Flights, FlightsBounded
<1>4. FlightsEarned'
  BY DEF IInv, TypeOK, Flights, FlightsEarned, ValidSince
<1> QED
  BY <1>1, <1>2, <1>3, <1>4 DEF IInv

\* The inductive invariant says what the cache promises.
LEMMA IInvSound == IInv => CredentialsSound
<1> SUFFICES ASSUME IInv PROVE CredentialsSound
  OBVIOUS
<1> USE CredentialCacheAssumption DEF IInv, TypeOK, Flights
<1>1. NeverAcceptsOthers
  BY DEF NeverAcceptsOthers, FlightsEarned, EntryEarned, ValidSince
<1>2. AcceptedWhileValid
  BY DEF AcceptedWhileValid, FlightsEarned, FlightsBounded, ValidSince, Valid
<1> QED
  BY <1>1, <1>2 DEF CredentialsSound

\* Whatever requests, checks and changes of the password interleave, the cache of the
\* basic scheme accepts credentials only if the backend did, no longer ago than the
\* lifespan and the time of two checks.
THEOREM CredentialsAlwaysSound == Spec => []CredentialsSound
<1>1. IInv /\ [Next]_vars => IInv'
  <2> SUFFICES ASSUME IInv, [Next]_vars PROVE IInv'
    OBVIOUS
  <2>1. CASE Tick
    BY <2>1, TickIInv
  <2>2. ASSUME NEW p \in Passwords, ChangePassword(p) PROVE IInv'
    BY <2>2, ChangePasswordIInv
  <2>3. ASSUME NEW p \in Passwords, Lookup(p) PROVE IInv'
    BY <2>3, LookupIInv
  <2>4. ASSUME NEW p \in Passwords, NEW fails \in BOOLEAN, CheckUserPassword(p, fails)
        PROVE  IInv'
    BY <2>4, CheckUserPasswordIInv
  <2>5. ASSUME NEW p \in Passwords, Put(p) PROVE IInv'
    BY <2>5, PutIInv
  <2>6. ASSUME NEW p \in Passwords, Answer(p) PROVE IInv'
    BY <2>6, AnswerIInv
  <2>7. ASSUME NEW p \in Passwords, NEW r \in Requests, Check(r, p) PROVE IInv'
    BY <2>7, CheckIInv
  <2>8. CASE UNCHANGED vars
    BY <2>8 DEF vars, IInv, TypeOK, Flights, RetiredAtChange, FlightsBounded, FlightsEarned,
                EntryEarned, ValidSince, Valid
  <2> QED
    BY <2>1, <2>2, <2>3, <2>4, <2>5, <2>6, <2>7, <2>8 DEF Next
<1> QED
  BY <1>1, InitIInv, IInvSound, PTL DEF Spec
==============================================================================
