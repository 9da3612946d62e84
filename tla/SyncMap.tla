------------------------------ MODULE SyncMap ------------------------------
(***************************************************************************)
(* The concurrent map under the in-memory session provider                 *)
(* (internal/session/memory/stdlib.go): a read-only part that is used      *)
(* without the mutex, a dirty part that is used with it, and entries whose *)
(* pointer is nil when deleted and expunged when also dropped from the     *)
(* dirty part.                                                             *)
(*                                                                         *)
(* A step is one atomic operation other goroutines can see: loading the    *)
(* read-only part, the compare-and-swap that ends an entry's retry loop,   *)
(* or a stretch of code under the mutex up to the next operation on an     *)
(* entry that goroutines without the mutex may also be changing.  Clear    *)
(* and CompareAndDelete have no caller and are left out.                   *)
(***************************************************************************)
EXTENDS Naturals, FiniteSets

CONSTANTS
    Goroutines, Keys, Values,
    None,                       \* no value, no entry, no goroutine
    Nil, Expunged,              \* the two marks of a deleted entry
    Slots,                      \* addresses for entries of one key; an unreachable one is reused
    Operations                  \* the methods the goroutines call

VARIABLES
    mu,         \* the goroutine that holds the mutex
    read,       \* the read-only part: [m, amended]
    dirty,      \* the dirty part, or None for a nil map
    misses,
    p,          \* the pointer of each entry
    local,      \* where each goroutine is: [pc, e, m, todo, got]
    calls       \* the call of each goroutine, with what its keys held meanwhile

vars == <<mu, read, dirty, misses, p, local, calls>>

Entries == Keys \X Slots

NoEntries == [k \in {} |-> None]

Start == [pc |-> "idle", e |-> None, m |-> NoEntries, todo |-> {}, got |-> NoEntries]

ValueOf(e) == IF p[e] \in Values THEN p[e] ELSE None

\* What a key holds: the read-only part decides when it has the key.
Content ==
    [k \in Keys |->
        IF k \in DOMAIN read.m THEN ValueOf(read.m[k])
        ELSE IF read.amended /\ k \in DOMAIN dirty THEN ValueOf(dirty[k])
        ELSE None]

Atomic == INSTANCE SessionMap WITH map <- Content

InDirty(k) == IF dirty = None THEN FALSE ELSE k \in DOMAIN dirty

With(m, k, e) == [x \in DOMAIN m \cup {k} |-> IF x = k THEN e ELSE m[x]]

Without(m, k) == [x \in DOMAIN m \ {k} |-> m[x]]

\* The entries something still refers to; the others are free memory, and
\* cleared when a call begins.
Reachable ==
    {read.m[k] : k \in DOMAIN read.m}
        \cup (IF dirty = None THEN {} ELSE {dirty[k] : k \in DOMAIN dirty})
        \cup {local[g].e : g \in Goroutines}
        \cup UNION {{local[g].m[k] : k \in DOMAIN local[g].m} : g \in Goroutines}

newEntry(k) ==
    LET free == {i \in Slots : <<k, i>> \notin Reachable}
    IN <<k, CHOOSE i \in free : \A j \in free : i <= j>>

Init ==
    /\ mu = None
    /\ read = [m |-> NoEntries, amended |-> FALSE]
    /\ dirty = None
    /\ misses = 0
    /\ p = [e \in Entries |-> Nil]
    /\ local = [g \in Goroutines |-> Start]
    /\ calls = [g \in Goroutines |-> Atomic!Idle]

-----------------------------------------------------------------------------
(***************************************************************************)
(* What a step does to the calls: its own goes on, has taken effect or     *)
(* returns, and every call still pending may have seen the new content.    *)
(***************************************************************************)
Seen(c) ==
    IF c.state = "pending"
    THEN [c EXCEPT !.seen = [k \in Keys |-> @[k] \cup {Content'[k]}]]
    ELSE c

Track(g, own) == calls' = [h \in Goroutines |-> Seen(IF h = g THEN own ELSE calls[h])]

Go(g, pc, e) ==
    /\ local' = [local EXCEPT ![g] = [Start EXCEPT !.pc = pc, !.e = e]]
    /\ Track(g, calls[g])

Done(g, result) ==
    /\ local' = [local EXCEPT ![g] = Start]
    /\ Track(g, Atomic!Returned(result))

Found(v) == Atomic!Found(v)

Swapped(b) == [value |-> None, ok |-> b]

Op(g) == calls[g].request.op
Key(g) == calls[g].request.key
New(g) == calls[g].request.value
Old(g) == calls[g].request.old

At(g, pc, ops) == local[g].pc = pc /\ Op(g) \in ops

-----------------------------------------------------------------------------
(***************************************************************************)
(* Calling a method, and its first look at the read-only part.             *)
(***************************************************************************)
Invoke(g, r) ==
    /\ calls[g].state \in {"idle", "returned"}
    /\ local' = [local EXCEPT ![g].pc = "read"]
    /\ calls' = [calls EXCEPT ![g] =
                    [state |-> "pending", request |-> r,
                     seen |-> [k \in Keys |-> {Content[k]}], result |-> None]]
    /\ p' = [e \in Entries |-> IF e \in Reachable THEN p[e] ELSE Nil]
    /\ UNCHANGED <<mu, read, dirty, misses>>

Hit(g) == Key(g) \in DOMAIN read.m

\* As it would be if the read-only part were taken to be complete.
LookUp_Complete(g) ==
    /\ At(g, "read", {"Load", "LoadAndDelete"})
    /\ UNCHANGED <<mu, read, dirty, misses, p>>
    /\ IF Hit(g) THEN Go(g, "entry", read.m[Key(g)]) ELSE Done(g, Found(None))

\* Load and LoadAndDelete begin the same way.
LookUp(g) ==
    /\ At(g, "read", {"Load", "LoadAndDelete"})
    /\ UNCHANGED <<mu, read, dirty, misses, p>>
    /\ IF Hit(g) THEN Go(g, "entry", read.m[Key(g)])
       ELSE IF read.amended THEN Go(g, "lock", None)
       ELSE Done(g, Found(None))

LookUpForStore(g) ==
    /\ At(g, "read", {"Swap", "LoadOrStore"})
    /\ UNCHANGED <<mu, read, dirty, misses, p>>
    /\ IF Hit(g) THEN Go(g, "entry", read.m[Key(g)]) ELSE Go(g, "lock", None)

LookUpForCompare(g) ==
    /\ At(g, "read", {"CompareAndSwap"})
    /\ UNCHANGED <<mu, read, dirty, misses, p>>
    /\ IF Hit(g) THEN Go(g, "entry", read.m[Key(g)])
       ELSE IF read.amended THEN Go(g, "lock", None)
       ELSE Done(g, Swapped(FALSE))

-----------------------------------------------------------------------------
(***************************************************************************)
(* The operations on an entry.  Each is a loop that ends with a successful *)
(* compare-and-swap of the pointer it read, so it acts at that instant.    *)
(***************************************************************************)
SetPointer(e, v) == p' = [p EXCEPT ![e] = v]

load(g) ==
    /\ At(g, "entry", {"Load"})
    /\ UNCHANGED <<mu, read, dirty, misses, p>>
    /\ Done(g, Found(ValueOf(local[g].e)))

delete(g) ==
    LET e == local[g].e
    IN /\ At(g, "entry", {"LoadAndDelete"})
       /\ IF p[e] \in Values THEN SetPointer(e, Nil) ELSE UNCHANGED p
       /\ UNCHANGED <<mu, read, dirty, misses>>
       /\ Done(g, Found(ValueOf(e)))

trySwap(g) ==
    LET e == local[g].e
    IN /\ At(g, "entry", {"Swap"})
       /\ UNCHANGED <<mu, read, dirty, misses>>
       /\ IF p[e] = Expunged
          THEN UNCHANGED p /\ Go(g, "lock", None)
          ELSE SetPointer(e, New(g)) /\ Done(g, Found(ValueOf(e)))

\* What tryLoadOrStore does to an entry that is not expunged.
LoadOrStoreIn(g, e) ==
    IF p[e] = Nil
    THEN SetPointer(e, New(g)) /\ Done(g, [value |-> New(g), ok |-> FALSE])
    ELSE UNCHANGED p /\ Done(g, Found(p[e]))

tryLoadOrStore(g) ==
    LET e == local[g].e
    IN /\ At(g, "entry", {"LoadOrStore"})
       /\ UNCHANGED <<mu, read, dirty, misses>>
       /\ IF p[e] = Expunged
          THEN UNCHANGED p /\ Go(g, "lock", None)
          ELSE LoadOrStoreIn(g, e)

CompareAndSwapIn(g, e) ==
    /\ IF p[e] = Old(g) THEN SetPointer(e, New(g)) ELSE UNCHANGED p
    /\ Done(g, Swapped(p[e] = Old(g)))

tryCompareAndSwap(g) ==
    /\ At(g, "entry", {"CompareAndSwap"})
    /\ UNCHANGED <<mu, read, dirty, misses>>
    /\ CompareAndSwapIn(g, local[g].e)

-----------------------------------------------------------------------------
(***************************************************************************)
(* The slow paths, under the mutex.                                        *)
(***************************************************************************)
Free == mu = None

\* missLocked, with d as the dirty part: enough misses promote it.
missLocked(d) ==
    IF misses + 1 < Cardinality(DOMAIN d)
    THEN dirty' = d /\ misses' = misses + 1 /\ UNCHANGED read
    ELSE dirty' = None /\ misses' = 0 /\ read' = [m |-> d, amended |-> FALSE]

LoadLocked(g) ==
    /\ Free /\ At(g, "lock", {"Load"})
    /\ UNCHANGED <<mu, p>>
    /\ IF Hit(g)
       THEN UNCHANGED <<read, dirty, misses>> /\ Go(g, "entry", read.m[Key(g)])
       ELSE IF read.amended
       THEN /\ missLocked(dirty)
            /\ IF InDirty(Key(g)) THEN Go(g, "entry", dirty[Key(g)]) ELSE Done(g, Found(None))
       ELSE UNCHANGED <<read, dirty, misses>> /\ Done(g, Found(None))

\* LoadAndDelete takes the key out of the dirty part before it clears the
\* entry: from here on no other goroutine finds the key.
LoadAndDeleteLocked(g) ==
    LET k == Key(g)
        gone == [calls[g] EXCEPT !.state = "applied", !.seen = None,
                                 !.result = Found(ValueOf(dirty[k]))]
    IN /\ Free /\ At(g, "lock", {"LoadAndDelete"})
       /\ UNCHANGED <<mu, p>>
       /\ IF Hit(g)
          THEN UNCHANGED <<read, dirty, misses>> /\ Go(g, "entry", read.m[k])
          ELSE IF read.amended
          THEN /\ missLocked(Without(dirty, k))
               /\ IF InDirty(k)
                  THEN /\ local' = [local EXCEPT ![g] = [Start EXCEPT !.pc = "entry", !.e = dirty[k]]]
                       /\ Track(g, IF ValueOf(dirty[k]) = None THEN calls[g] ELSE gone)
                  ELSE Done(g, Found(None))
          ELSE UNCHANGED <<read, dirty, misses>> /\ Done(g, Found(None))

\* A key neither part has is added to the dirty part, which is first made
\* from the read-only one when there is none.
AddKey(g) ==
    IF read.amended
    THEN /\ dirty' = With(dirty, Key(g), newEntry(Key(g)))
         /\ p' = [p EXCEPT ![newEntry(Key(g))] = New(g)]
         /\ UNCHANGED <<mu, read, misses>>
         /\ Done(g, IF Op(g) = "Swap" THEN Found(None) ELSE [value |-> New(g), ok |-> FALSE])
    ELSE /\ mu' = g
         /\ dirty' = IF dirty = None THEN NoEntries ELSE dirty
         /\ UNCHANGED <<read, misses, p, calls>>
         /\ local' = [local EXCEPT ![g] = [Start EXCEPT !.pc = "copy",
                        !.todo = IF dirty = None THEN DOMAIN read.m ELSE {}]]

\* An entry of the read-only part that was dropped from the dirty one is
\* put back (unexpungeLocked) before it takes a value.
Unexpunge(g) ==
    LET e == read.m[Key(g)]
    IN /\ mu' = g
       /\ IF p[e] = Expunged
          THEN SetPointer(e, Nil) /\ dirty' = With(dirty, Key(g), e)
          ELSE UNCHANGED <<p, dirty>>
       /\ UNCHANGED <<read, misses>>
       /\ Go(g, "locked", e)

SwapLocked(g) ==
    /\ Free /\ At(g, "lock", {"Swap"})
    /\ IF Hit(g) THEN Unexpunge(g)
       ELSE IF InDirty(Key(g))
       THEN /\ SetPointer(dirty[Key(g)], New(g))
            /\ UNCHANGED <<mu, read, dirty, misses>>
            /\ Done(g, Found(ValueOf(dirty[Key(g)])))
       ELSE AddKey(g)

LoadOrStoreLocked(g) ==
    /\ Free /\ At(g, "lock", {"LoadOrStore"})
    /\ IF Hit(g) THEN Unexpunge(g)
       ELSE IF InDirty(Key(g))
       THEN missLocked(dirty) /\ UNCHANGED mu /\ LoadOrStoreIn(g, dirty[Key(g)])
       ELSE AddKey(g)

CompareAndSwapLocked(g) ==
    /\ Free /\ At(g, "lock", {"CompareAndSwap"})
    /\ UNCHANGED mu
    /\ IF Hit(g)
       THEN UNCHANGED <<read, dirty, misses>> /\ CompareAndSwapIn(g, read.m[Key(g)])
       ELSE IF InDirty(Key(g))
       THEN missLocked(dirty) /\ CompareAndSwapIn(g, dirty[Key(g)])
       ELSE UNCHANGED <<read, dirty, misses, p>> /\ Done(g, Swapped(FALSE))

\* The end of Swap and LoadOrStore on an entry of the read-only part.
swapLocked(g) ==
    /\ At(g, "locked", {"Swap"})
    /\ mu' = None
    /\ SetPointer(local[g].e, New(g))
    /\ UNCHANGED <<read, dirty, misses>>
    /\ Done(g, Found(ValueOf(local[g].e)))

StoreLocked(g) ==
    /\ At(g, "locked", {"LoadOrStore"})
    /\ mu' = None
    /\ UNCHANGED <<read, dirty, misses>>
    /\ LoadOrStoreIn(g, local[g].e)

\* dirtyLocked copies the entries one by one, marking the deleted ones
\* (tryExpungeLocked) while other goroutines may be storing to them.
dirtyLocked(g) ==
    /\ local[g].pc = "copy"
    /\ \E k \in local[g].todo :
        LET e == read.m[k]
        IN /\ IF p[e] = Nil THEN SetPointer(e, Expunged) ELSE UNCHANGED p
           /\ dirty' = IF p[e] \in {Nil, Expunged} THEN dirty ELSE With(dirty, k, e)
           /\ local' = [local EXCEPT ![g].todo = @ \ {k}]
    /\ UNCHANGED <<mu, read, misses, calls>>

\* Then the read-only part says it is incomplete and the key is added.
Publish(g) ==
    /\ local[g].pc = "copy" /\ local[g].todo = {}
    /\ mu' = None
    /\ read' = [read EXCEPT !.amended = TRUE]
    /\ dirty' = With(dirty, Key(g), newEntry(Key(g)))
    /\ p' = [p EXCEPT ![newEntry(Key(g))] = New(g)]
    /\ UNCHANGED misses
    /\ Done(g, IF Op(g) = "Swap" THEN Found(None) ELSE [value |-> New(g), ok |-> FALSE])

-----------------------------------------------------------------------------
(***************************************************************************)
(* Range: promote the dirty part if there is more in it, then load the     *)
(* entries one by one.                                                     *)
(***************************************************************************)
Walk(g, m) ==
    /\ local' = [local EXCEPT ![g] = [Start EXCEPT !.pc = "range", !.m = m, !.todo = DOMAIN m,
                                         !.got = [k \in Keys |-> None]]]
    /\ Track(g, calls[g])

RangeRead(g) ==
    /\ At(g, "read", {"Range"})
    /\ UNCHANGED <<mu, read, dirty, misses, p>>
    /\ IF read.amended THEN Go(g, "lock", None) ELSE Walk(g, read.m)

RangePromote(g) ==
    /\ Free /\ At(g, "lock", {"Range"})
    /\ UNCHANGED <<mu, p>>
    /\ IF read.amended
       THEN /\ read' = [m |-> dirty, amended |-> FALSE]
            /\ dirty' = None /\ misses' = 0
            /\ Walk(g, dirty)
       ELSE UNCHANGED <<read, dirty, misses>> /\ Walk(g, read.m)

RangeEntry(g) ==
    /\ local[g].pc = "range"
    /\ \E k \in local[g].todo :
        local' = [local EXCEPT ![g].todo = @ \ {k}, ![g].m = Without(@, k),
                               ![g].got[k] = ValueOf(local[g].m[k])]
    /\ UNCHANGED <<mu, read, dirty, misses, p, calls>>

RangeDone(g) ==
    /\ local[g].pc = "range" /\ local[g].todo = {}
    /\ UNCHANGED <<mu, read, dirty, misses, p>>
    /\ Done(g, Found(local[g].got))

Next ==
    \E g \in Goroutines :
        \/ \E r \in Atomic!Invocations : r.op \in Operations /\ Invoke(g, r)
        \/ LookUp(g) \/ LookUpForStore(g) \/ LookUpForCompare(g)
        \/ load(g) \/ delete(g) \/ trySwap(g) \/ tryLoadOrStore(g) \/ tryCompareAndSwap(g)
        \/ LoadLocked(g) \/ LoadAndDeleteLocked(g)
        \/ SwapLocked(g) \/ LoadOrStoreLocked(g) \/ CompareAndSwapLocked(g)
        \/ swapLocked(g) \/ StoreLocked(g) \/ dirtyLocked(g) \/ Publish(g)
        \/ RangeRead(g) \/ RangePromote(g) \/ RangeEntry(g) \/ RangeDone(g)

Spec == Init /\ [][Next]_vars

-----------------------------------------------------------------------------
\* The map implements SessionMap: whatever the interleaving of the lock-free
\* and the locked paths, each call has the effect and the answer of one
\* instant between its start and its end; nothing stored is lost when the
\* dirty part is made or promoted, and a deleted value goes to one caller.
MapImplements == Atomic!Spec

\* What the comments on entry.p and Map.dirty say.  Outside a copy: a deleted
\* entry of the read-only part is marked expunged only when there is a dirty
\* part that lacks its key; every other entry is in the dirty part, if there
\* is one, under the same key; and only an amended read-only part lacks keys.
EntriesPlaced ==
    (\A g \in Goroutines : local[g].pc # "copy") =>
        /\ \A k \in DOMAIN read.m :
            LET e == read.m[k]
            IN IF p[e] = Expunged THEN dirty # None /\ ~InDirty(k)
               ELSE dirty = None \/ (InDirty(k) /\ dirty[k] = e)
        /\ read.amended <=> dirty # None
=============================================================================
