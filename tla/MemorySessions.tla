--------------------------- MODULE MemorySessions ---------------------------
(***************************************************************************)
(* The in-memory session provider (internal/session/memory/provider.go):   *)
(* a concurrent map from session ids to items, and a pool the items of     *)
(* destroyed sessions go back to.  The map's calls are the instants at     *)
(* which SessionMap says they take effect.  Requests and the periodic      *)
(* collection of expired sessions run side by side, so a goroutine may     *)
(* still hold an item another one has released and a third has reused:     *)
(* what it then reads of the item is any value.                            *)
(***************************************************************************)
EXTENDS Naturals, FiniteSets

CONSTANTS
    Goroutines, Ids,
    Data,                       \* serialized sessions
    Items,                      \* addresses of items, numbered
    Expirations,                \* lifetimes given to Save and Regenerate; 0 is unlimited
    MaxTime,                    \* bound of the clock
    None

VARIABLES
    db,         \* the item of each session id
    item,       \* the fields of each item: [data, lastActiveTime, expiration]
    pool,       \* released items
    now,
    local,      \* each goroutine's call
    stored      \* history: the data each id was last given

vars == <<db, item, pool, now, local, stored>>

Blank == [data |-> None, lastActiveTime |-> 0, expiration |-> 0]

\* stale: the item held has been released; fresh: the ids stored to since
\* the collection began; saw: the data under the id when its item was loaded;
\* own: whether that is what the last Get answered, if its item was not released.
Idle == [pc |-> "idle", id |-> None, item |-> None, at |-> 0, todo |-> {},
         stale |-> FALSE, fresh |-> {}, saw |-> None, own |-> TRUE]

Init ==
    /\ db = [i \in Ids |-> None]
    /\ item = [a \in Items |-> Blank]
    /\ pool = {}
    /\ now = 0
    /\ local = [g \in Goroutines |-> Idle]
    /\ stored = [i \in Ids |-> None]

At(g, pc) == local[g].pc = pc

Free(g) == local[g].pc = "idle"

Become(g, l) == local' = [local EXCEPT ![g] = l]

Collecting(g) == local[g].pc \in {"gc", "look", "sweep", "swept"}

\* The calls of the map, on one key.
Store(g, id, a, l) ==
    /\ db' = [db EXCEPT ![id] = a]
    /\ local' = [h \in Goroutines |->
                    IF h = g THEN l
                    ELSE IF Collecting(h) THEN [local[h] EXCEPT !.fresh = @ \cup {id}]
                    ELSE local[h]]


LoadAndDelete(id) == db' = [db EXCEPT ![id] = None] /\ stored' = [stored EXCEPT ![id] = None]

-----------------------------------------------------------------------------
Reachable ==
    {db[i] : i \in Ids} \cup pool \cup {local[g].item : g \in Goroutines}

\* acquireItem: one from the pool, or a new one.
acquireItem ==
    LET new == Items \ Reachable
    IN pool \cup (IF new = {} THEN {} ELSE {CHOOSE a \in new : \A b \in new : a <= b})

\* The item is emptied and goes back to the pool; who holds it has it no more.
releaseItem(g, a, l) ==
    /\ item' = [item EXCEPT ![a] = Blank]
    /\ pool' = pool \cup {a}
    /\ local' = [h \in Goroutines |->
                    IF h = g THEN l
                    ELSE IF local[h].item = a THEN [local[h] EXCEPT !.stale = TRUE, !.item = None]
                    ELSE local[h]]

Get(g, id) ==
    /\ Free(g)
    /\ IF db[id] = None
       THEN Become(g, Idle)
       ELSE Become(g, [Idle EXCEPT !.pc = "get", !.id = id, !.item = db[id], !.saw = stored[id]])
    /\ UNCHANGED <<db, item, pool, now, stored>>

GetData(g) ==
    /\ At(g, "get")
    /\ \E d \in (IF local[g].stale THEN Data \cup {None} ELSE {item[local[g].item].data}) :
        Become(g, [Idle EXCEPT !.own = local[g].stale \/ d = local[g].saw])
    /\ UNCHANGED <<db, item, pool, now, stored>>

Save(g, id, d, x) ==
    /\ Free(g)
    /\ \E a \in acquireItem :
        /\ item' = [item EXCEPT ![a] = [data |-> d, lastActiveTime |-> now, expiration |-> x]]
        /\ pool' = pool \ {a}
        /\ Become(g, [Idle EXCEPT !.pc = "save", !.id = id, !.item = a])
    /\ UNCHANGED <<db, now, stored>>

Read(a) == \E g \in Goroutines : local[g].item = a

\* The Store that ends Save and Regenerate; the item it replaces is memory
\* nothing refers to, once no Get or GC is still reading it.
Put(g) ==
    LET l == local[g]
    IN /\ l.pc \in {"save", "regenerate"}
       /\ Store(g, l.id, l.item, Idle)
       /\ stored' = [stored EXCEPT ![l.id] = item[l.item].data]
       /\ item' = [a \in Items |-> IF a = db[l.id] /\ ~Read(a) THEN Blank ELSE item[a]]
       /\ UNCHANGED <<pool, now>>

Regenerate(g, id, newID, x) ==
    /\ Free(g)
    /\ LoadAndDelete(id)
    /\ IF db[id] = None
       THEN UNCHANGED item /\ Become(g, Idle)
       ELSE /\ item' = [item EXCEPT ![db[id]].lastActiveTime = now, ![db[id]].expiration = x]
            /\ Become(g, [Idle EXCEPT !.pc = "regenerate", !.id = newID, !.item = db[id]])
    /\ UNCHANGED <<pool, now>>

Destroy(g, id) ==
    /\ Free(g)
    /\ LoadAndDelete(id)
    /\ Become(g, IF db[id] = None THEN Idle
                 ELSE [Idle EXCEPT !.pc = "destroy", !.item = db[id]])
    /\ UNCHANGED <<item, pool, now>>

Release(g) ==
    /\ At(g, "destroy")
    /\ releaseItem(g, local[g].item, Idle)
    /\ UNCHANGED <<db, now, stored>>

-----------------------------------------------------------------------------
(***************************************************************************)
(* GC: Range visits every id there was at its start, and maybe others.     *)
(***************************************************************************)
Present == {i \in Ids : db[i] # None}

GC(g) ==
    /\ Free(g)
    /\ \E more \in SUBSET (Ids \ Present) :
        Become(g, [Idle EXCEPT !.pc = "gc", !.at = now, !.todo = Present \cup more])
    /\ UNCHANGED <<db, item, pool, now, stored>>

GCVisit(g) ==
    /\ At(g, "gc")
    /\ \E i \in local[g].todo :
        Become(g, [local[g] EXCEPT !.todo = @ \ {i}, !.item = db[i], !.stale = FALSE,
                                   !.pc = IF db[i] = None THEN "gc" ELSE "look",
                                   !.id = i])
    /\ UNCHANGED <<db, item, pool, now, stored>>

Expired(a, t) ==
    item[a].expiration # 0 /\ t >= item[a].lastActiveTime + item[a].expiration

GCLook(g) ==
    LET l == local[g]
    IN /\ At(g, "look")
       /\ \E expired \in (IF l.stale THEN BOOLEAN ELSE {Expired(l.item, l.at)}) :
            Become(g, [l EXCEPT !.pc = IF expired THEN "sweep" ELSE "gc", !.item = None])
       /\ UNCHANGED <<db, item, pool, now, stored>>

GCSweep(g) ==
    LET l == local[g]
    IN /\ At(g, "sweep")
       /\ LoadAndDelete(l.id)
       /\ Become(g, [l EXCEPT !.item = db[l.id], !.stale = FALSE,
                              !.pc = IF db[l.id] = None THEN "gc" ELSE "swept"])
       /\ UNCHANGED <<item, pool, now>>

GCRelease(g) ==
    /\ At(g, "swept")
    /\ releaseItem(g, local[g].item, [local[g] EXCEPT !.pc = "gc", !.item = None])
    /\ UNCHANGED <<db, now, stored>>

GCDone(g) ==
    /\ At(g, "gc") /\ local[g].todo = {}
    /\ Become(g, Idle)
    /\ UNCHANGED <<db, item, pool, now, stored>>

Tick ==
    /\ now < MaxTime
    /\ now' = now + 1
    /\ UNCHANGED <<db, item, pool, local, stored>>

Next ==
    \/ \E g \in Goroutines :
        \/ \E i \in Ids :
            \/ Get(g, i) \/ Destroy(g, i)
            \/ \E x \in Expirations :
                \/ \E d \in Data : Save(g, i, d, x)
                \/ \E j \in Ids \ {i} : Regenerate(g, i, j, x)
        \/ GetData(g) \/ Put(g) \/ Release(g)
        \/ GC(g) \/ GCVisit(g) \/ GCLook(g) \/ GCSweep(g) \/ GCRelease(g) \/ GCDone(g)
    \/ Tick

Spec == Init /\ [][Next]_vars

-----------------------------------------------------------------------------
\* The items a goroutine has taken out of the map or the pool for itself.
Own(g) == IF local[g].pc \in {"save", "regenerate", "destroy", "swept"} THEN {local[g].item} ELSE {}

\* An item has one owner: a session id, the pool, or the goroutine that is
\* saving, renaming or destroying it.  So no two sessions share an item and
\* no session's item is handed out by acquireItem.
OneOwner ==
    /\ \A i, j \in Ids : db[i] # None /\ db[i] = db[j] => i = j
    /\ \A i \in Ids : db[i] \notin pool
    /\ \A g \in Goroutines :
        /\ Own(g) \cap (pool \cup {db[i] : i \in Ids}) = {}
        /\ \A h \in Goroutines \ {g} : Own(g) \cap Own(h) = {}

\* What is under an id is what was last stored there, whatever was released
\* and reused since.
ContentKept == \A i \in Ids : db[i] # None => item[db[i]].data = stored[i]

\* Get answers with the data of its session, unless the session was destroyed
\* between the two reads of Get.
ReadsOwn == \A g \in Goroutines : local[g].own

\* GC takes out only sessions that were expired when it began, unless the id
\* was stored to while it ran.
SweepsExpired ==
    \A g \in Goroutines :
        At(g, "swept") /\ local[g].id \notin local[g].fresh => Expired(local[g].item, local[g].at)

\* When GC is done, no session is left that had expired when it began, other
\* than those stored to while it ran.
LeavesNone ==
    \A g \in Goroutines :
        At(g, "gc") /\ local[g].todo = {} =>
            \A i \in Present \ local[g].fresh : ~Expired(db[i], local[g].at)

=============================================================================
