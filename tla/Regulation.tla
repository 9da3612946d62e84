------------------------------ MODULE Regulation ------------------------------
(***************************************************************************)
(* The regulation of password attempts: the ban check before a password is *)
(* verified, the authentication log, the count of recent failures and the  *)
(* bans it saves, and the commands that add and revoke bans.               *)
(*                                                                         *)
(* A subject is an IP or a username.  Every storage call is a step of its  *)
(* own, so attempts interleave between them, and the clock may advance.    *)
(* Attempts of other types than 1FA are not read by the counting queries   *)
(* and are left out.                                                       *)
(***************************************************************************)
EXTENDS Integers, Sequences, FiniteSetsExt, Bags

CONSTANTS Requests, Users, IPs, NoUser, NoIP,
          Modes,        \* the subjects of automatic bans: subset of {"ip", "user"}
          MaxRetries, FindTime, BanTime,
          Durations,    \* the durations of bans added by the command
          Commands,     \* the commands in use: subset of {"add", "revoke", "revokeid"}
          Faults,       \* storage calls may fail
          Prompt,       \* no time passes, and no command runs, while an attempt is recorded and counted
          MaxNow, MaxLog, MaxBans

NamesAssumption == NoUser \notin Users /\ NoIP \notin IPs /\ Users \cap IPs = {}
RegulationAssumption ==
    /\ MaxRetries \in Nat /\ FindTime \in Nat /\ BanTime \in Nat
    /\ Modes \subseteq {"ip", "user"} /\ Commands \subseteq {"add", "revoke", "revokeid"}
    /\ Durations \subseteq Nat \ {0} /\ {Faults, Prompt} \subseteq BOOLEAN
    /\ {MaxNow, MaxLog, MaxBans} \subseteq Nat

VARIABLES now,
          log,          \* bag of the rows of authentication_logs
          bans,         \* the rows of banned_ip and banned_user, by id
          req           \* the attempts being handled

vars == <<now, log, bans, req>>

Subjects == IPs \cup Users

\* The expiry of a permanent ban (NULL in the table), and the end of a ban
\* that was not revoked.
Never == MaxNow + 1 + Max({BanTime} \cup Durations)

Rows == [user : Users \cup {NoUser}, ip : IPs, time : 0..MaxNow, ok : BOOLEAN, banned : BOOLEAN]

Handling == {"append", "lastip", "recordsip", "saveip", "lastuser", "recordsuser", "saveuser"}

\* since: the start of the search for failures; after: the same, moved by the
\* last ban; expires: the end of the ban to save.
Attempts ==
    [pc : {"checkip", "checkuser", "verify"} \cup Handling,
     user : Users \cup {NoUser}, ip : IPs, time : 0..MaxNow, ok : BOOLEAN, banned : BOOLEAN,
     since : -FindTime..MaxNow, after : -FindTime..Never, expires : 0..Never]

Idle == [pc |-> "idle", user |-> NoUser, ip |-> NoIP, time |-> 0, ok |-> FALSE, banned |-> FALSE,
         since |-> 0, after |-> 0, expires |-> 0]

TypeOKRegulation ==
    /\ now \in 0..MaxNow
    /\ IsABag(log) /\ DOMAIN log \subseteq Rows
    /\ \A b \in DOMAIN bans :
          bans[b] \in [subject : Subjects, time : 0..MaxNow, expires : 0..Never,
                       expired : 0..Never, cli : BOOLEAN]
    /\ req \in [Requests -> Attempts \cup {Idle}]

Init ==
    /\ now = 0 /\ log = EmptyBag /\ bans = <<>>
    /\ req = [r \in Requests |-> Idle]

-----------------------------------------------------------------------------
(* Queries *)

LoadBanned(s) ==
    {b \in DOMAIN bans : bans[b].subject = s /\ bans[b].expired = Never /\ bans[b].expires > now}

\* A ban that never expires and was not revoked has no time of expiration.
Expiration(b) ==
    IF bans[b].expired # Never THEN bans[b].expired
    ELSE IF bans[b].expires # Never THEN bans[b].expires
    ELSE 0

\* The bans the query for the last one may return: the column has the time of
\* the insertion, which several rows may share.
LastBans(s) ==
    LET of == {b \in DOMAIN bans : bans[b].subject = s}
    IN  {b \in of : \A c \in of : bans[c].time <= bans[b].time}

\* The last ban is forgotten.
After_Forgetful(since, s) == {since}

After(since, s) ==
    IF LastBans(s) = {} THEN {since}
    ELSE {Max({since, Expiration(b)}) : b \in LastBans(s)}

RegulationRecords(s, t) ==
    {row \in DOMAIN log : s \in {row.user, row.ip} /\ row.time > t /\ ~row.banned}

CountRows(rows) == MapThenSumSet(LAMBDA row : log[row], rows)

\* What the regulator makes of the records of a subject: the time at which a
\* ban would end, and whether there is one.  The newest MaxRetries records must
\* all be failures; a success and a failure of the same time come in any order.
Expires(records) ==
    LET failures == {row \in records : ~row.ok}
        reset    == Max({-1} \cup {row.time : row \in records \ failures})
    IN  [ban  |-> CountRows({row \in failures : row.time >= reset}) >= MaxRetries,
         none |-> CountRows({row \in failures : row.time > reset}) < MaxRetries,
         time |-> Max({0} \cup {row.time : row \in failures}) + BanTime]

-----------------------------------------------------------------------------
(* An attempt: the password handler, or a basic authorization header *)

Become(r, q) == req' = [req EXCEPT ![r] = q]

Goto(r, label) == Become(r, IF label = "idle" THEN Idle ELSE [req[r] EXCEPT !.pc = label])

\* HandleAttempt reads the clock for the row it is about to append.
Mark(r, ok, banned) ==
    Become(r, [req[r] EXCEPT !.pc = "append", !.time = now, !.ok = ok, !.banned = banned])

Attempt(r) == \E u \in Users \cup {NoUser}, i \in IPs :
    /\ req[r] = Idle
    /\ BagCardinality(log) + Cardinality({q \in Requests : req[q] # Idle}) < MaxLog
    /\ Become(r, [Idle EXCEPT !.pc = "checkip", !.user = u, !.ip = i])
    /\ UNCHANGED <<now, log, bans>>

\* The check of the IP, also made for a username that does not exist: its
\* attempt is recorded without a name, and an error of the check is ignored.
BanCheckIP(r) ==
    /\ req[r].pc = "checkip"
    /\ LET banned == LoadBanned(req[r].ip) # {}
       IN  \/ banned /\ Mark(r, FALSE, TRUE)
           \/ ~banned /\ req[r].user # NoUser /\ Goto(r, "checkuser")
           \/ (~banned \/ Faults) /\ req[r].user = NoUser /\ Mark(r, FALSE, FALSE)
           \/ Faults /\ req[r].user # NoUser /\ Goto(r, "idle")
    /\ UNCHANGED <<now, log, bans>>

BanCheckUser(r) ==
    /\ req[r].pc = "checkuser"
    /\ \/ LoadBanned(req[r].user) # {} /\ Mark(r, FALSE, TRUE)
       \/ LoadBanned(req[r].user) = {} /\ Goto(r, "verify")
       \/ Faults /\ Goto(r, "idle")
    /\ UNCHANGED <<now, log, bans>>

\* The password is verified.  Nothing is recorded when the connection pool
\* timed out, or when the credential cache answered for a basic header.
CheckUserPassword(r) ==
    /\ req[r].pc = "verify"
    /\ (\E ok \in BOOLEAN : Mark(r, ok, FALSE)) \/ Goto(r, "idle")
    /\ UNCHANGED <<now, log, bans>>

-----------------------------------------------------------------------------
(* HandleAttempt: record, then count and ban the IP, then the user *)

Regulated(mode) == MaxRetries > 0 /\ mode \in Modes

Row(r) == [user |-> req[r].user, ip |-> req[r].ip, time |-> req[r].time,
           ok |-> req[r].ok, banned |-> req[r].banned]

AfterIP(r) == IF Regulated("user") /\ req[r].user # NoUser THEN "lastuser" ELSE "idle"

AppendAuthenticationLog(r) ==
    /\ req[r].pc = "append"
    /\ log' = log (+) SetToBag({Row(r)}) \/ (Faults /\ UNCHANGED log)
    /\ LET next == IF req[r].ok \/ req[r].banned THEN "idle"
                   ELSE IF Regulated("ip") THEN "lastip" ELSE AfterIP(r)
       IN  IF next = "idle" THEN Become(r, Idle)
           ELSE Become(r, [req[r] EXCEPT !.pc = next, !.since = now - FindTime])
    /\ UNCHANGED <<now, bans>>

LoadLastBan(r, label, s, next, otherwise) ==
    /\ req[r].pc = label
    /\ \/ \E t \in After(req[r].since, s) :
             Become(r, [req[r] EXCEPT !.pc = next, !.after = t])
       \/ Faults /\ Goto(r, otherwise)
    /\ UNCHANGED <<now, log, bans>>

LoadRecords(r, label, s, next, otherwise) ==
    /\ req[r].pc = label
    /\ LET e == Expires(RegulationRecords(s, req[r].after))
       IN  \/ e.ban /\ Become(r, [req[r] EXCEPT !.pc = next, !.after = 0, !.expires = e.time])
           \/ (e.none \/ Faults) /\ Goto(r, otherwise)
    /\ UNCHANGED <<now, log, bans>>

Ban(s, e, cli) == [subject |-> s, time |-> now, expires |-> e, expired |-> Never, cli |-> cli]

SaveBanned(r, label, s, otherwise) ==
    /\ req[r].pc = label
    /\ bans' = Append(bans, Ban(s, req[r].expires, FALSE)) \/ (Faults /\ UNCHANGED bans)
    /\ Goto(r, otherwise)
    /\ UNCHANGED <<now, log>>

PossibleBannedIP(r) ==
    \/ LoadLastBan(r, "lastip", req[r].ip, "recordsip", AfterIP(r))
    \/ LoadRecords(r, "recordsip", req[r].ip, "saveip", AfterIP(r))
    \/ SaveBanned(r, "saveip", req[r].ip, AfterIP(r))

PossibleBannedUser(r) ==
    \/ LoadLastBan(r, "lastuser", req[r].user, "recordsuser", "idle")
    \/ LoadRecords(r, "recordsuser", req[r].user, "saveuser", "idle")
    \/ SaveBanned(r, "saveuser", req[r].user, "idle")

-----------------------------------------------------------------------------
(* The commands, and the clock *)

Undisturbed == Prompt => \A r \in Requests : req[r].pc \notin Handling

BansAdd == \E s \in Subjects, e \in {now + d : d \in Durations} \cup {Never} :
    /\ Undisturbed /\ "add" \in Commands /\ Len(bans) < MaxBans
    /\ bans' = Append(bans, Ban(s, e, TRUE))
    /\ UNCHANGED <<now, log, req>>

Revoke(ids) ==
    bans' = [b \in DOMAIN bans |->
                IF b \in ids /\ bans[b].expired = Never THEN [bans[b] EXCEPT !.expired = now] ELSE bans[b]]

\* The bans in effect of a subject, or any one ban by its identifier.
BansRevoke ==
    /\ Undisturbed
    /\ \/ "revoke" \in Commands /\ \E s \in Subjects : Revoke(LoadBanned(s))
       \/ "revokeid" \in Commands /\ \E b \in DOMAIN bans : Revoke({b})
    /\ UNCHANGED <<now, log, req>>

Tick ==
    /\ Undisturbed /\ now < MaxNow
    /\ now' = now + 1
    /\ UNCHANGED <<log, bans, req>>

Next ==
    \/ Tick \/ BansAdd \/ BansRevoke
    \/ \E r \in Requests :
          \/ Attempt(r) \/ BanCheckIP(r) \/ BanCheckUser(r) \/ CheckUserPassword(r)
          \/ AppendAuthenticationLog(r) \/ PossibleBannedIP(r) \/ PossibleBannedUser(r)

Spec == Init /\ [][Next]_vars

-----------------------------------------------------------------------------
(* Properties *)

Failures(s) == {row \in DOMAIN log : s \in {row.user, row.ip} /\ ~row.ok /\ ~row.banned}

\* The bans of a subject that are over.
Ended(s) == {b \in DOMAIN bans : bans[b].subject = s /\ (bans[b].expired # Never \/ bans[b].expires <= now)}

\* Whatever the number of attempts made at once, a subject has at most
\* MaxRetries - 1 failures, and one more for every attempt that can be in
\* flight, within the find time since its last success and the end of its last
\* ban: the ban stops every attempt that begins after it (the checks before
\* CheckUserPassword in FirstFactorPasswordPOST, and HandleAttempt).
GuessesBounded ==
    \A s \in {t \in Subjects : Regulated(IF t \in IPs THEN "ip" ELSE "user")} :
        LET resets == {row.time : row \in {w \in DOMAIN log : s \in {w.user, w.ip} /\ w.ok}}
                      \cup {Expiration(b) : b \in Ended(s)} \cup {now - FindTime}
        IN  CountRows({row \in Failures(s) : row.time > Max(resets)})
                <= MaxRetries - 1 + Cardinality(Requests)

\* Every automatic ban was earned: it ends BanTime after a failure of its
\* subject that, with the failures of the find time before it, makes MaxRetries
\* failures, none of them an attempt refused because of a ban (expires).
BansEarned ==
    \A b \in {c \in DOMAIN bans : ~bans[c].cli} :
        LET last == bans[b].expires - BanTime
            counted == {row \in Failures(bans[b].subject) : row.time \in last - FindTime + 1..last}
        IN  (\E row \in counted : row.time = last) /\ CountRows(counted) >= MaxRetries

\* A subject starts afresh after a ban ends or is revoked: a later automatic
\* ban counts MaxRetries failures that all came after that end
\* (LoadRegulationRecordsByUser, LoadRegulationRecordsByIP).
FreshStart ==
    \A c \in {d \in DOMAIN bans : ~bans[d].cli} :
        \A b \in {d \in Ended(bans[c].subject) : d < c} :
            LET last == bans[c].expires - BanTime
            IN  last > Expiration(b) =>
                    CountRows({row \in Failures(bans[c].subject) :
                                  row.time > Expiration(b) /\ row.time <= last}) >= MaxRetries
===============================================================================
