----------------------------- MODULE SessionMap -----------------------------
(***************************************************************************)
(* What the concurrent map of the in-memory session provider promises to   *)
(* the goroutines that share it: a call that changes the map takes effect  *)
(* at one instant between its call and its return, and a call that changes *)
(* nothing answers with what its key held at some instant between the two. *)
(* Range answers per key, as its comment says: "Range may reflect any      *)
(* mapping for that key from any point during the Range call".             *)
(***************************************************************************)
CONSTANTS
    Goroutines, Keys, Values,
    None                        \* no value

VARIABLES
    map,        \* what each key holds
    calls       \* the call of each goroutine: [state, request, seen, result]

Held == Values \cup {None}

Invocations ==
    [op: {"Load", "LoadAndDelete"}, key: Keys, value: {None}, old: {None}]
        \cup [op: {"Swap", "LoadOrStore"}, key: Keys, value: Values, old: {None}]
        \cup [op: {"CompareAndSwap"}, key: Keys, value: Values, old: Values]
        \cup [op: {"Range"}, key: {None}, value: {None}, old: {None}]

\* A value with whether there was one, the two results of most methods.
Found(v) == [value |-> v, ok |-> v # None]

Idle == [state |-> "idle", request |-> None, seen |-> None, result |-> None]

Returned(a) == [state |-> "returned", request |-> None, seen |-> None, result |-> a]

Init ==
    /\ map = [k \in Keys |-> None]
    /\ calls = [g \in Goroutines |-> Idle]

Invoke(g, r) ==
    /\ calls[g].state \in {"idle", "returned"}
    /\ calls' = [calls EXCEPT ![g] =
                    [state |-> "pending", request |-> r,
                     seen |-> [k \in Keys |-> {map[k]}], result |-> None]]
    /\ UNCHANGED map

\* Key k takes the value v: every call in progress could have seen it.
Write(g, k, v, state, result) ==
    /\ map' = [map EXCEPT ![k] = v]
    /\ calls' = [h \in Goroutines |->
                    IF h = g
                    THEN IF state = "returned" THEN Returned(result)
                         ELSE [calls[g] EXCEPT !.state = state, !.seen = None, !.result = result]
                    ELSE IF calls[h].state = "pending"
                    THEN [calls[h] EXCEPT !.seen[k] = @ \cup {v}]
                    ELSE calls[h]]

\* The instant at which a call changes the map; it may return later.
Apply(g, state) ==
    LET r == calls[g].request
    IN /\ calls[g].state = "pending"
       /\ \/ /\ r.op = "Swap"
             /\ Write(g, r.key, r.value, state, Found(map[r.key]))
          \/ /\ r.op = "LoadAndDelete"
             /\ map[r.key] # None
             /\ Write(g, r.key, None, state, Found(map[r.key]))
          \/ /\ r.op = "LoadOrStore"
             /\ map[r.key] = None
             /\ Write(g, r.key, r.value, state, [value |-> r.value, ok |-> FALSE])
          \/ /\ r.op = "CompareAndSwap"
             /\ map[r.key] = r.old
             /\ Write(g, r.key, r.value, state, [value |-> None, ok |-> TRUE])

\* The answers of a call that changes nothing.
Answers(g) ==
    LET r == calls[g].request
        seen == calls[g].seen
    IN CASE r.op = "Load" -> {Found(v) : v \in seen[r.key]}
         [] r.op = "Swap" -> {}
         [] r.op = "LoadAndDelete" -> {Found(v) : v \in seen[r.key] \cap {None}}
         [] r.op = "LoadOrStore" -> {Found(v) : v \in seen[r.key] \ {None}}
         [] r.op = "CompareAndSwap" ->
                {[value |-> None, ok |-> FALSE] : v \in seen[r.key] \ {r.old}}
         [] r.op = "Range" ->
                {Found(f) : f \in {f \in [Keys -> Held] : \A k \in Keys : f[k] \in seen[k]}}

Answer(g) ==
    /\ calls[g].state = "pending"
    /\ \E a \in Answers(g) :
        calls' = [calls EXCEPT ![g] = Returned(a)]
    /\ UNCHANGED map

Return(g) ==
    /\ calls[g].state = "applied"
    /\ calls' = [calls EXCEPT ![g] = Returned(@.result)]
    /\ UNCHANGED map

\* A step is the one of the goroutine whose own call goes on.
Next ==
    \E g \in Goroutines :
        /\ calls'[g].state # calls[g].state
        /\ \/ \E r \in Invocations : Invoke(g, r)
           \/ \E s \in {"applied", "returned"} : Apply(g, s)
           \/ Answer(g)
           \/ Return(g)

Spec == Init /\ [][Next]_<<map, calls>>
=============================================================================
