---------------------------- MODULE LDAPClientPool ----------------------------
(***************************************************************************)
(* The pool of LDAP connections (PooledLDAPClientFactory): filling it,     *)
(* acquiring a client with growth, health checks and replacement,          *)
(* releasing, and closing the pool while clients are checked out.          *)
(*                                                                         *)
(* Every critical section of the mutex and every operation on a channel is *)
(* one step.  A dial succeeds or fails, and an open connection may break   *)
(* at any time.  The timeouts are choices that are always open.            *)
(***************************************************************************)
EXTENDS Integers, Sequences, FiniteSets

CONSTANTS Workers,       \* goroutines that use the user provider
          Clients,       \* identities for connections
          NoClient,
          Count,         \* the capacity of the pool
          CloseTimeout   \* Close may give up on clients that are checked out

\* The pool has room for a client.
PoolAssumption == Count \in Nat \ {0} /\ CloseTimeout \in BOOLEAN /\ NoClient \notin Clients

VARIABLES pool,          \* the channel of idle clients
          size,          \* the clients the factory accounts for
          closing,       \* also whether the channel done is closed
          wake,          \* whether the channel wake holds a token
          conn,          \* the state of every connection
          starting,      \* Initialize: the dials left, and the client dialed last
          closer,        \* the progress of Close
          pc, client, then

vars == <<pool, size, closing, wake, conn, starting, closer, pc, client, then>>
workers == <<pc, client, then>>

Elements(s) == {s[i] : i \in DOMAIN s}

Referenced == Elements(pool) \cup {starting.client} \cup {client[w] : w \in Workers}

\* A new connection takes an identity nothing refers to; which one is of no
\* importance.
Fresh ==
    LET free == {c \in Clients : conn[c] = "closed" /\ c \notin Referenced}
    IN  IF free = {} THEN {} ELSE {CHOOSE c \in free : TRUE}

Labels == {"idle", "look", "grow", "dial", "grown", "select", "probe", "redial", "return", "backoff",
           "use", "forget", "wake", "shut"}

TypeOKPool ==
    /\ pool \in Seq(Clients) /\ Len(pool) <= Count
    /\ size \in 0..Count /\ {closing, wake} \subseteq BOOLEAN
    /\ conn \in [Clients -> {"open", "broken", "closed"}]
    /\ starting \in [left : 0..Count, client : Clients \cup {NoClient}, ok : BOOLEAN]
    /\ closer \in {"no", "drain", "wait", "sleep", "done", "timeout"}
    /\ pc \in [Workers -> Labels]
    /\ client \in [Workers -> Clients \cup {NoClient}]
    /\ then \in [Workers -> {"idle", "select", "backoff"}]

Init ==
    /\ pool = <<>> /\ size = 0 /\ closing = FALSE /\ wake = FALSE
    /\ conn = [c \in Clients |-> "closed"]
    /\ starting = [left |-> Count, client |-> NoClient, ok |-> FALSE]
    /\ closer = "no"
    /\ pc = [w \in Workers |-> "idle"]
    /\ client = [w \in Workers |-> NoClient]
    /\ then = [w \in Workers |-> "idle"]

-----------------------------------------------------------------------------
(* Initialize, in the startup check, before any worker runs *)

Initialized == starting.left = 0 /\ starting.client = NoClient

InitializeDial ==
    /\ starting.left > 0 /\ starting.client = NoClient
    /\ \/ \E c \in Fresh :
             /\ conn' = [conn EXCEPT ![c] = "open"]
             /\ starting' = [starting EXCEPT !.left = @ - 1, !.client = c]
       \/ starting' = [starting EXCEPT !.left = @ - 1] /\ UNCHANGED conn
    /\ UNCHANGED <<pool, size, closing, wake, closer, workers>>

\* A client dialed while the pool was closed is closed, and the rest is given up.
InitializeAdd ==
    /\ starting.client # NoClient
    /\ IF closing
       THEN /\ conn' = [conn EXCEPT ![starting.client] = "closed"]
            /\ starting' = [left |-> 0, client |-> NoClient, ok |-> FALSE]
            /\ UNCHANGED <<pool, size>>
       ELSE /\ pool' = Append(pool, starting.client) /\ size' = size + 1
            /\ starting' = [starting EXCEPT !.client = NoClient, !.ok = TRUE]
            /\ UNCHANGED conn
    /\ UNCHANGED <<closing, wake, closer, workers>>

-----------------------------------------------------------------------------
(* GetClient: acquire, with grow, refresh and backoff *)

Goto(w, label) == pc' = [pc EXCEPT ![w] = label]

Hold(w, c, label) == client' = [client EXCEPT ![w] = c] /\ Goto(w, label)

\* The process serves only once the startup check has passed.
Acquire(w) ==
    /\ pc[w] = "idle" /\ Initialized /\ starting.ok /\ ~closing
    /\ Goto(w, "look")
    /\ UNCHANGED <<pool, size, closing, wake, conn, starting, closer, client, then>>

Look(w) ==
    /\ pc[w] = "look"
    /\ Goto(w, IF pool = <<>> THEN "grow" ELSE "select")
    /\ UNCHANGED <<pool, size, closing, wake, conn, starting, closer, client, then>>

Grow(w) ==
    /\ pc[w] = "grow"
    /\ IF closing \/ size >= Count
       THEN Goto(w, "select") /\ UNCHANGED size
       ELSE Goto(w, "dial") /\ size' = size + 1
    /\ UNCHANGED <<pool, closing, wake, conn, starting, closer, client, then>>

Dial(w) ==
    /\ pc[w] = "dial"
    /\ \/ \E c \in Fresh :
             conn' = [conn EXCEPT ![c] = "open"] /\ Hold(w, c, "grown") /\ UNCHANGED then
       \/ Goto(w, "forget") /\ then' = [then EXCEPT ![w] = "select"] /\ UNCHANGED <<conn, client>>
    /\ UNCHANGED <<pool, size, closing, wake, starting, closer>>

Grown(w) ==
    /\ pc[w] = "grown"
    /\ IF closing
       THEN Goto(w, "forget") /\ then' = [then EXCEPT ![w] = "select"]
       ELSE Goto(w, "use") /\ UNCHANGED then
    /\ UNCHANGED <<pool, size, closing, wake, conn, starting, closer, client>>

\* The cases of the select that are ready, in any order: the timeout, the end
\* of the pool, and a client.
Select(w) ==
    /\ pc[w] = "select"
    /\ \/ Goto(w, "idle") /\ UNCHANGED <<pool, client>>
       \/ pool # <<>> /\ Hold(w, Head(pool), "probe") /\ pool' = Tail(pool)
    /\ UNCHANGED <<size, closing, wake, conn, starting, closer, then>>

\* The health check, which may also fail on an open connection; an unhealthy
\* client is closed.
Healthy(w) ==
    /\ pc[w] = "probe"
    /\ \/ conn[client[w]] = "open" /\ Goto(w, "use") /\ UNCHANGED conn
       \/ Goto(w, "redial") /\ conn' = [conn EXCEPT ![client[w]] = "closed"]
    /\ UNCHANGED <<pool, size, closing, wake, starting, closer, client, then>>

\* A replacement takes over the slot.  Without one the closed client goes back
\* to the pool and keeps the slot for a later attempt.
Redial(w) ==
    /\ pc[w] = "redial"
    /\ \/ \E c \in Fresh :
             conn' = [conn EXCEPT ![c] = "open"] /\ Hold(w, c, "use") /\ UNCHANGED then
       \/ Goto(w, "return") /\ then' = [then EXCEPT ![w] = "backoff"] /\ UNCHANGED <<conn, client>>
    /\ UNCHANGED <<pool, size, closing, wake, starting, closer>>

Backoff(w) ==
    /\ pc[w] = "backoff"
    /\ Goto(w, "idle") \/ (~closing /\ Goto(w, "select"))
    /\ UNCHANGED <<pool, size, closing, wake, conn, starting, closer, client, then>>

-----------------------------------------------------------------------------
(* ReleaseClient *)

\* The caller is done with the client.
Use(w) ==
    /\ pc[w] = "use"
    /\ Goto(w, "return") /\ then' = [then EXCEPT ![w] = "idle"]
    /\ UNCHANGED <<pool, size, closing, wake, conn, starting, closer, client>>

\* The client goes back whether or not the pool is closing.
Release_Always(w) ==
    /\ pc[w] = "return"
    /\ Len(pool) < Count
    /\ pool' = Append(pool, client[w]) /\ Hold(w, NoClient, then[w])
    /\ UNCHANGED <<size, closing, wake, conn, starting, closer, then>>

Release(w) ==
    /\ pc[w] = "return"
    /\ IF ~closing /\ Len(pool) < Count
       THEN pool' = Append(pool, client[w]) /\ Hold(w, NoClient, then[w])
       ELSE Goto(w, "forget") /\ UNCHANGED <<pool, client>>
    /\ UNCHANGED <<size, closing, wake, conn, starting, closer, then>>

Forget(w) ==
    /\ pc[w] = "forget"
    /\ size' = IF size > 0 THEN size - 1 ELSE 0
    /\ Goto(w, "wake")
    /\ UNCHANGED <<pool, closing, wake, conn, starting, closer, client, then>>

\* The send does not block: a token that is already there is enough.
Wake_Silent(w) ==
    /\ pc[w] = "wake"
    /\ Goto(w, IF client[w] = NoClient THEN then[w] ELSE "shut")
    /\ UNCHANGED <<pool, size, closing, wake, conn, starting, closer, client, then>>

Wake(w) ==
    /\ pc[w] = "wake"
    /\ wake' = TRUE
    /\ Goto(w, IF client[w] = NoClient THEN then[w] ELSE "shut")
    /\ UNCHANGED <<pool, size, closing, conn, starting, closer, client, then>>

Shut(w) ==
    /\ pc[w] = "shut"
    /\ conn' = [conn EXCEPT ![client[w]] = "closed"]
    /\ Hold(w, NoClient, then[w])
    /\ UNCHANGED <<pool, size, closing, wake, starting, closer, then>>

-----------------------------------------------------------------------------
(* Close: drain, then wait *)

Close ==
    /\ ~closing /\ closing' = TRUE /\ closer' = "drain"
    /\ UNCHANGED <<pool, size, wake, conn, starting, workers>>

Drain ==
    /\ closer = "drain"
    /\ IF pool = <<>>
       THEN closer' = "wait" /\ UNCHANGED <<pool, size, wake, conn>>
       ELSE /\ conn' = [conn EXCEPT ![Head(pool)] = "closed"] /\ pool' = Tail(pool)
            /\ size' = IF size > 0 THEN size - 1 ELSE 0
            /\ wake' = TRUE /\ UNCHANGED closer
    /\ UNCHANGED <<closing, starting, workers>>

Wait ==
    /\ \/ closer = "wait" /\ closer' = (IF size = 0 THEN "done" ELSE "sleep") /\ UNCHANGED wake
       \/ closer = "sleep" /\ wake /\ wake' = FALSE /\ closer' = "wait"
       \/ closer = "sleep" /\ CloseTimeout /\ closer' = "timeout" /\ UNCHANGED wake
    /\ UNCHANGED <<pool, size, closing, conn, starting, workers>>

-----------------------------------------------------------------------------

\* The server or the network ends a connection.
Break == \E c \in Clients :
    /\ conn[c] = "open" /\ conn' = [conn EXCEPT ![c] = "broken"]
    /\ UNCHANGED <<pool, size, closing, wake, starting, closer, workers>>

WorkerStep(w) ==
    \/ Look(w) \/ Grow(w) \/ Dial(w) \/ Grown(w) \/ Select(w) \/ Healthy(w) \/ Redial(w) \/ Backoff(w)
    \/ Use(w) \/ Release(w) \/ Forget(w) \/ Wake(w) \/ Shut(w)

Next ==
    \/ InitializeDial \/ InitializeAdd \/ Close \/ Drain \/ Wait \/ Break
    \/ \E w \in Workers : Acquire(w) \/ WorkerStep(w)

Spec == Init /\ [][Next]_vars

\* Every goroutine that can run does; callers release what they acquire (all of
\* them defer it) and dials end (they have a timeout).
FairSpec == Spec /\ WF_vars(Drain) /\ WF_vars(Wait) /\ \A w \in Workers : WF_vars(WorkerStep(w))

-----------------------------------------------------------------------------
(* Properties *)

\* The slots a worker accounts for: a reservation, a client, or a slot it is
\* about to give back.
Accounted == {w \in Workers : pc[w] \in {"dial", "grown", "probe", "redial", "return", "use", "forget"}}

\* The factory accounts for exactly the pooled clients, those checked out and
\* those being dialed, in the middle of growth, refresh, release and Close: no
\* slot is ever lost (each would shrink the pool for good) or counted twice.
SlotsExact == size = Len(pool) + Cardinality(Accounted)

\* The pool never has more connections than pooling.count, although a worker
\* finds the pool empty, then reserves a slot, then dials, with other workers
\* and a broken connection's replacement in between (grow, refresh).
ConnectionsBounded == Cardinality({c \in Clients : conn[c] = "open"}) <= Count

\* A client belongs to one place: no two workers, and no worker and the pool,
\* share a connection, even after a failed refresh put a closed one back.
Exclusive ==
    /\ \A v, w \in Workers : v # w /\ client[v] # NoClient => client[v] # client[w]
    /\ \A w \in Workers : client[w] \notin Elements(pool)
    /\ Cardinality(Elements(pool)) = Len(pool)

\* When the pool was closed and everybody is done, nothing is left open: not a
\* client dialed, replaced or released while Close was draining the pool, nor
\* one Initialize dialed ("Close drains the pool and closes every client").
NothingLeaks ==
    closer \in {"done", "timeout"} /\ Initialized /\ (\A w \in Workers : pc[w] = "idle")
        => pool = <<>> /\ size = 0 /\ \A c \in Clients : conn[c] = "closed"
===============================================================================
