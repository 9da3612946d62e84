---------------------------- MODULE RequestLimits ----------------------------
(***************************************************************************)
(* The rate limiter in front of a handler, and the delay after a password  *)
(* check.                                                                  *)
(*                                                                         *)
(* Limiter (internal/middlewares/rate_limiting.go): a request takes one    *)
(* token from every bucket of its address, and gives back the ones it took *)
(* when a bucket had none, or when it is answered with an exempt status.   *)
(* Idle buckets are collected.  The token buckets are those of             *)
(* golang.org/x/time/rate: external.                                       *)
(*                                                                         *)
(* Delay (timing_attack_delay.go): an answer is held back to the average   *)
(* duration of the last successful checks.                                 *)
(***************************************************************************)
EXTENDS Integers, Sequences, FiniteSets, FiniteSetsExt, SequencesExt

CONSTANTS Clients,      \* requests being served at the same time
          Addresses,    \* client addresses
          Limits,       \* rate_limits of an endpoint: [enable, buckets, exempt, handler]
          Second,       \* units of time in a second
          MaxClock,     \* bound: units of time in a behaviour
          MaxDebt,      \* bound: an address whose level is lower does not ask
          MaxExempted,  \* bound: exempted requests of an address
          NoLimiter, NoReservation,
          History,      \* durations the average is taken over
          MinDelay, Jitters, Durations,
          MaxAttempts   \* bound: password checks in a behaviour

VARIABLES limit,     \* the endpoint's rate limiter
          table,     \* IPRateLimitBucket.bucket of each bucket: address -> limiter
          clock, at, \* the time; at[c] = what newRateLimiterHandler is doing for c
          served,    \* history: served[ip][t] = requests let through at t that count
          exempted,  \* history: requests of each address whose tokens were given back
          promise    \* history: [time, alone]: when the address was told to come back,
                     \* and that no other request of it was in flight since it asked
limits == <<limit, table, clock, at, served, exempted, promise>>

VARIABLES average,   \* execDurationMovingAverage
          cursor,
          successDelay, \* successes are held back too
          answers    \* history: [took, cached, successful, total] of each attempt
delays == <<average, cursor, successDelay, answers>>

----------------------------------------------------------------------------
(* rate.Limiter.  A level of Period is one token: one is added every unit of time. *)

Full(b) == b.Requests * b.Period

NewLimiter(b) == [level |-> Full(b), last |-> 0, event |-> 0, updated |-> 0]

Advance(l, b, t) ==
    Min({Full(b), l.level + (t - Min({l.last, t}))})

ReserveN(l, b, t) ==
    LET level == Advance(l, b, t) - b.Period
        act == t + Max({0, 0 - level})
    IN  [limiter |-> [l EXCEPT !.level = level, !.last = t, !.event = act], act |-> act]

\* What was reserved after the reservation is not given back.
CancelAt(l, b, act, t) ==
    LET restore == b.Period - (l.event - act)
    IN  IF act < t \/ restore <= 0
        THEN l
        ELSE [l EXCEPT !.level = Min({Full(b), Advance(l, b, t) + restore}),
                       !.last = t,
                       !.event = IF act = l.event /\ act - b.Period >= t
                                 THEN act - b.Period ELSE @]

----------------------------------------------------------------------------
(* The limiter of an endpoint. *)

NewRateLimitBucketsConfig(config) ==
    [i \in DOMAIN config.buckets |->
       [Period |-> config.buckets[i].Period, Requests |-> config.buckets[i].Requests]]

\* A limiter that is not enabled has no buckets, whatever was set before.
WithRateLimitConfig(config) ==
    [config EXCEPT !.buckets = IF config.enable THEN NewRateLimitBucketsConfig(config) ELSE <<>>]

NewRateLimiter(config) ==
    LET options == WithRateLimitConfig(config)
    IN  [buckets |-> options.buckets, exempt |-> options.exempt, handler |-> options.handler,
         frequency |-> IF options.buckets = <<>> THEN 0
                       ELSE Min({options.buckets[i].Period : i \in DOMAIN options.buckets})]

\* What the service that collects garbage asks of the limiter: how often to be swept, 0 for never.
GarbageCollectionFrequency == limit.frequency

Idle == [pc |-> "idle"]

InitLimits ==
    /\ limit \in {NewRateLimiter(config) : config \in Limits}
    /\ table = [i \in DOMAIN limit.buckets |-> [ip \in Addresses |-> NoLimiter]]
    /\ clock = 0
    /\ at = [c \in Clients |-> Idle]
    /\ served = [ip \in Addresses |-> [t \in 0 .. MaxClock |-> 0]]
    /\ exempted = [ip \in Addresses |-> 0]
    /\ promise = [ip \in Addresses |-> [time |-> 0, alone |-> FALSE]]

InFlight(ip) == {c \in Clients : at[c].pc # "idle" /\ at[c].ip = ip}

\* A client asks.  Without buckets the middleware is the handler itself.
Ask(c, ip) ==
    /\ at[c].pc = "idle"
    /\ \A i \in DOMAIN limit.buckets : table[i][ip] # NoLimiter => table[i][ip].level >= 0 - MaxDebt
    /\ at' = [d \in Clients |->
         IF d = c
         THEN [pc |-> IF limit.buckets = <<>> THEN "next" ELSE "fetch", ip |-> ip, now |-> clock, i |-> 1,
               retryAfter |-> 0, taken |-> [i \in DOMAIN limit.buckets |-> NoReservation],
               promised |-> promise[ip].alone /\ promise[ip].time <= clock /\ InFlight(ip) = {}]
         ELSE IF d \in InFlight(ip) THEN [at[d] EXCEPT !.promised = FALSE] ELSE at[d]]
    /\ promise' = [promise EXCEPT ![ip] = [time |-> 0, alone |-> InFlight(ip) = {}]]
    /\ UNCHANGED <<limit, table, clock, served, exempted>>

\* Fetch under the read lock: a limiter of the address is there.
Fetch(c) ==
    LET r == at[c] IN
    /\ r.pc = "fetch"
    /\ IF table[r.i][r.ip] = NoLimiter
       THEN /\ at' = [at EXCEPT ![c].pc = "create"]
            /\ UNCHANGED table
       ELSE /\ at' = [at EXCEPT ![c].pc = "reserve"]
            /\ table' = [table EXCEPT ![r.i][r.ip].updated = clock]
    /\ UNCHANGED <<limit, clock, served, exempted, promise>>

Created_Unchecked(l, b) == NewLimiter(b)

\* What the bucket holds for the address once the write lock was taken.
Created(l, b) == IF l = NoLimiter THEN NewLimiter(b) ELSE l

\* Fetch under the write lock, which checks again.
FetchNew(c) ==
    LET r == at[c] IN
    /\ r.pc = "create"
    /\ at' = [at EXCEPT ![c].pc = "reserve"]
    /\ table' = [table EXCEPT ![r.i][r.ip] = [Created(@, limit.buckets[r.i]) EXCEPT !.updated = clock]]
    /\ UNCHANGED <<limit, clock, served, exempted, promise>>

\* The next bucket, or the decision.
After(r) ==
    IF r.i < Len(limit.buckets) THEN [r EXCEPT !.pc = "fetch", !.i = @ + 1]
    ELSE [r EXCEPT !.pc = IF r.retryAfter > 0 THEN "refuse" ELSE "next"]

Reserve(c) ==
    LET r == at[c]
        reserved == ReserveN(table[r.i][r.ip], limit.buckets[r.i], r.now)
        delay == reserved.act - r.now
        took == [r EXCEPT !.taken[r.i] = reserved.act]
    IN
    /\ r.pc = "reserve"
    /\ table' = [table EXCEPT ![r.i][r.ip] = reserved.limiter]
    /\ at' = [at EXCEPT ![c] =
         IF delay > 0 THEN [took EXCEPT !.pc = "cancel", !.retryAfter = Max({@, delay})]
         ELSE After(took)]
    /\ served' = IF at'[c].pc = "next" THEN [served EXCEPT ![r.ip][clock] = @ + 1] ELSE served
    /\ UNCHANGED <<limit, clock, exempted, promise>>

\* The reservation of bucket i is cancelled; a collected limiter is nobody's.
Release(r, i) ==
    table' = [table EXCEPT ![i][r.ip] =
                IF r.taken[i] = NoReservation THEN @
                ELSE CancelAt(@, limit.buckets[i], r.taken[i], r.now)]

Cancel(c) ==
    LET r == at[c] IN
    /\ r.pc = "cancel"
    /\ Release(r, r.i)
    /\ at' = [at EXCEPT ![c] = After([r EXCEPT !.taken[r.i] = NoReservation])]
    /\ UNCHANGED <<limit, clock, served, exempted, promise>>

\* The accepted reservations, first to last.
CancelAccepted(c) ==
    LET r == at[c]
        i == Min({j \in DOMAIN r.taken : r.taken[j] # NoReservation})
    IN
    /\ r.pc \in {"refuse", "exempt"}
    /\ r.taken # [j \in DOMAIN r.taken |-> NoReservation]
    /\ Release(r, i)
    /\ at' = [at EXCEPT ![c].taken[i] = NoReservation]
    /\ UNCHANGED <<limit, clock, served, exempted, promise>>

\* When the address is asked to come back: a date cut off to the second, or
\* a number of seconds rounded up.
HandlerRateLimitAPI(t, retryAfter) == ((t + retryAfter) \div Second) * Second
HandlerRateLimitOpenIDConnect(t, retryAfter) ==
    t + ((retryAfter + Second - 1) \div Second) * Second

\* A second is added to the date, which may be up to a second early.
Return(r) ==
    IF limit.handler = "api" THEN HandlerRateLimitAPI(clock, r.retryAfter) + Second
    ELSE HandlerRateLimitOpenIDConnect(clock, r.retryAfter)

Refuse(c) ==
    LET r == at[c] IN
    /\ r.pc = "refuse"
    /\ r.taken = [j \in DOMAIN r.taken |-> NoReservation]
    /\ at' = [at EXCEPT ![c] = Idle]
    /\ promise' = [promise EXCEPT ![r.ip] = [time |-> Return(r), alone |-> @.alone]]
    /\ UNCHANGED <<limit, table, clock, served, exempted>>

\* The handler answers, with a status that is exempt or with another.
Answer(c) ==
    LET r == at[c] IN
    /\ r.pc = "next"
    /\ \/ /\ at' = [at EXCEPT ![c] = Idle]
          /\ UNCHANGED <<served, exempted>>
       \/ /\ limit.exempt
          /\ limit.buckets # <<>>
          /\ exempted[r.ip] < MaxExempted
          /\ at' = [at EXCEPT ![c].pc = "exempt"]
          /\ served' = [served EXCEPT ![r.ip][r.now] = @ - 1]
          /\ exempted' = [exempted EXCEPT ![r.ip] = @ + 1]
    /\ promise' = [promise EXCEPT ![r.ip] = [time |-> 0, alone |-> FALSE]]
    /\ UNCHANGED <<limit, table, clock>>

Exempted(c) ==
    /\ at[c].pc = "exempt"
    /\ at[c].taken = [j \in DOMAIN at[c].taken |-> NoReservation]
    /\ at' = [at EXCEPT ![c] = Idle]
    /\ UNCHANGED <<limit, table, clock, served, exempted, promise>>

\* Not used for a period, and full.
Collectable(l, b) ==
    /\ l # NoLimiter
    /\ l.updated < clock - b.Period
    /\ Advance(l, b, clock) >= Full(b)

\* One bucket's sweep, under its write lock.  Requests that still hold a
\* reservation of a collected limiter have nothing to give back to the table.
GarbageCollection(i) ==
    LET gone == {ip \in Addresses : Collectable(table[i][ip], limit.buckets[i])} IN
    /\ GarbageCollectionFrequency > 0
    /\ gone # {}
    /\ table' = [table EXCEPT ![i] = [ip \in Addresses |-> IF ip \in gone THEN NoLimiter ELSE @[ip]]]
    /\ at' = [c \in Clients |->
                IF at[c].pc # "idle" /\ at[c].ip \in gone
                THEN [at[c] EXCEPT !.taken[i] = NoReservation] ELSE at[c]]
    /\ UNCHANGED <<limit, clock, served, exempted, promise>>

\* A request makes its reservations, and gives them back, within a unit of time; handlers may take longer.
Tick ==
    /\ clock < MaxClock
    /\ \A c \in Clients : at[c].pc \in {"idle", "next"}
    /\ clock' = clock + 1
    /\ UNCHANGED <<limit, table, at, served, exempted, promise>>

NextLimits ==
    \/ \E c \in Clients : \/ \E ip \in Addresses : Ask(c, ip)
                          \/ Fetch(c) \/ FetchNew(c) \/ Reserve(c) \/ Cancel(c)
                          \/ CancelAccepted(c) \/ Refuse(c) \/ Answer(c) \/ Exempted(c)
    \/ \E i \in DOMAIN limit.buckets : GarbageCollection(i)
    \/ Tick

\* However requests overlap and buckets are collected, an address has in every
\* stretch of time no more requests counted than the burst and what is refilled,
\* and one for every exempted request, whose token is given back as of when it came
\* (newRateLimiterHandler, IPRateLimitBucket.Fetch and GarbageCollection).
LimitHolds ==
    \A ip \in Addresses, i \in DOMAIN limit.buckets, s \in 0 .. clock :
      \A t \in s .. clock :
        SumFunctionOnSet(served[ip], s .. t)
          <= limit.buckets[i].Requests + (t - s) \div limit.buckets[i].Period
             + exempted[ip]

\* An address that was refused, and asks again alone when Retry-After said, is let
\* through by every bucket (retryAfter is the longest of the delays, and the
\* reservations of a refused request are cancelled).
PromiseKept ==
    \A c \in Clients : at[c].pc = "refuse" => ~at[c].promised

TypeOKLimits ==
    /\ clock \in 0 .. MaxClock
    /\ \A i \in DOMAIN limit.buckets, ip \in Addresses :
         table[i][ip] # NoLimiter =>
           /\ table[i][ip].level <= Full(limit.buckets[i])
           /\ table[i][ip].updated \in 0 .. clock
    /\ \A c \in Clients :
         at[c].pc \in {"idle", "fetch", "create", "reserve", "cancel", "refuse", "next", "exempt"}

----------------------------------------------------------------------------
(* The delay of an endpoint that checks passwords. *)

NewTimingAttackDelay(initialDelay) == [i \in 0 .. History - 1 |-> initialDelay]

InitDelay ==
    /\ \E initialDelay \in Durations : average = NewTimingAttackDelay(initialDelay)
    /\ successDelay \in BOOLEAN
    /\ cursor = 0
    /\ answers = <<>>

Sum(f) == SumFunctionOnSet(f, DOMAIN f)

\* Slept in whole milliseconds, at least one.
calculateActualDelay(took, sum, jitter) ==
    Max({Max({sum \div History, MinDelay}) + jitter - took, 1})

\* Only a check that succeeded, and went to the backend, is averaged.
movingAverageIteration(took, cached, successful) ==
    IF successful /\ ~cached
    THEN /\ average' = [average EXCEPT ![cursor] = took]
         /\ cursor' = (cursor + 1) % History
    ELSE UNCHANGED <<average, cursor>>

CachedDelay(took, cached, successful, jitter) ==
    /\ movingAverageIteration(took, cached, successful)
    /\ answers' = Append(answers,
         [took |-> took, cached |-> cached, successful |-> successful,
          total |-> IF successful /\ ~successDelay THEN took
                    ELSE took + calculateActualDelay(took, Sum(average), jitter)])
    /\ UNCHANGED successDelay

NextDelay ==
    /\ Len(answers) < MaxAttempts
    /\ \E took \in Durations, cached \in BOOLEAN, successful \in BOOLEAN, jitter \in Jitters :
         CachedDelay(took, cached, successful, jitter)

Checks(n) ==
    SelectSeq(SubSeq(answers, 1, n), LAMBDA a : a.successful /\ ~a.cached)

\* No refusal is given before the mean of the last History checks that went to the
\* backend and succeeded, nor before the minimum, and where successes are held back
\* no answer is; a check shorter than those is held back no longer than the jitter
\* beyond the slowest of them (CachedDelay): failures, which may not have gone to the
\* backend, do not shorten the delay of later ones.
AnswersHeldBack ==
    \A n \in DOMAIN answers :
      LET last == Checks(n - 1)
          k == Len(last)
          tooks == [i \in 1 .. History |-> last[k - History + i].took]
          a == answers[n]
      IN  (a.successful => successDelay) =>
          /\ a.total >= MinDelay
          /\ k >= History =>
               /\ a.total >= Sum(tooks) \div History
               /\ a.total <= Max({Max({tooks[i] : i \in 1 .. History}), MinDelay, a.took + 1}) + Max(Jitters)
=============================================================================
