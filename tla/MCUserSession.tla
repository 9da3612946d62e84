--------------------------- MODULE MCUserSession ---------------------------
(***************************************************************************)
(* Instances for TLC of the session of a browser and of what keeps it in   *)
(* memory.  A behaviour is about one part:                                 *)
(*   requests  overlapping requests of one session (UserSession); which    *)
(*             handlers they are for is chosen at the start;               *)
(*   map       goroutines in the concurrent map (SyncMap);                 *)
(*   memory    requests in the in-memory provider (MemorySessions);        *)
(*   gc        a request and the collection of expired sessions there;     *)
(*   devices   logins and settings that share the preferred Duo device, and *)
(*   methods   the preferred second factor method (UserPreferences).       *)
(* Goroutines are the requests; session ids are told by the user they are  *)
(* of.                                                                     *)
(***************************************************************************)
EXTENDS UserSession, TLC

CONSTANTS Stored, None, Nil, Expunged

VARIABLES
    part, mix,
    mu, read, dirty, misses, p, local, calls,       \* SyncMap
    db, item, pool, now, doing, stored,             \* MemorySessions
    disabled, fallback, registered, method, device, asking, answer
                                                    \* UserPreferences

\* Bound: three addresses for the entries of a key, and one value.
Map == INSTANCE SyncMap WITH
    Goroutines <- Requests, Keys <- Users, Values <- {Stored}, Slots <- 1..3,
    Operations <- {"Load", "Swap", "LoadAndDelete", "LoadOrStore", "CompareAndSwap", "Range"}

\* Bound: three items, and a clock that passes one lifetime.
Memory == INSTANCE MemorySessions WITH
    Goroutines <- Requests, Ids <- Users, Data <- 1..2, Items <- 1..3,
    Expirations <- {1}, MaxTime <- 1, local <- doing

Preferences == INSTANCE UserPreferences WITH
    Devices <- {"phone", "tablet"}, NoDevice <- None, NoRow <- Nil, request <- asking

mapVars == <<mu, read, dirty, misses, p, local, calls>>
memoryVars == <<db, item, pool, now, doing, stored>>
preferenceVars == <<disabled, fallback, registered, method, device, asking, answer>>

\* Bound: the handlers that overlap, and the identifiers they generate.
Mixes == {[handlers |-> {"firstfactor", "duo"}, ids |-> 3],
          [handlers |-> {"firstfactor", "totp", "logout", "authz"}, ids |-> 2],
          [handlers |-> {"passkeyGET", "passkeyPOST", "webauthnGET", "webauthnPOST",
                         "duo", "password", "reauthenticate"}, ids |-> 3]}

NoMix == [handlers |-> {}, ids |-> 0]

NoPreferences == disabled = {} /\ fallback = "" /\ registered = {} /\ method = Nil

MCInit ==
    /\ Init /\ Map!Init /\ Memory!Init /\ Preferences!Init
    /\ \/ part = "requests" /\ mix \in Mixes /\ NoPreferences /\ device = None
       \/ part \in {"map", "memory", "gc"} /\ mix = NoMix /\ NoPreferences /\ device = None
       \/ part = "devices" /\ mix = NoMix /\ NoPreferences
       \/ part = "methods" /\ mix = NoMix /\ device = None

MCNext ==
    \/ /\ part = "requests"
       /\ Next
       /\ \A r \in Requests : op'[r] \in mix.handlers \cup {"none"}
       /\ last' <= mix.ids
       /\ UNCHANGED <<part, mix, mapVars, memoryVars, preferenceVars>>
    \/ /\ part = "map"
       /\ Map!Next
       /\ UNCHANGED <<part, mix, vars, memoryVars, preferenceVars>>
    \/ /\ part = "memory"
       /\ Memory!Next
       /\ now' = 0 /\ \A r \in Requests : ~Memory!Collecting(r)'
       /\ UNCHANGED <<part, mix, vars, mapVars, preferenceVars>>
    \/ /\ part = "gc"
       /\ Memory!Next
       /\ Cardinality({r \in Requests : Memory!Collecting(r)'}) <= 1
       /\ \A r \in Requests : doing'[r].pc # "get"
       /\ \A a \in 1..3 : item'[a].data # 2
       /\ UNCHANGED <<part, mix, vars, mapVars, preferenceVars>>
    \/ /\ part \in {"devices", "methods"}
       /\ Preferences!Next
       /\ part = "devices" => method' = method
                               /\ \A r \in Requests : asking'[r].at \notin {"info", "insert"}
       /\ part = "methods" => device' = device
                               /\ \A r \in Requests : asking'[r].at # "preauth"
       /\ UNCHANGED <<part, mix, vars, mapVars, memoryVars>>

MCSpec ==
    MCInit /\ [][MCNext]_<<vars, part, mix, mapVars, memoryVars, preferenceVars>>

\* The concurrent map implements an atomic one (SyncMap!MapImplements).
MapImplements == Map!MapImplements


\* What the user chose is kept (UserPreferences!ChoicesKept).
PreferencesKept == Preferences!PreferencesKept

Symmetry == Permutations(Requests) \cup Permutations(Users)
=============================================================================
