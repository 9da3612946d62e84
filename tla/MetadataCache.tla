--------------------------- MODULE MetadataCache ---------------------------
(***************************************************************************)
(* The FIDO metadata the WebAuthn handlers validate authenticators with:   *)
(* StoreCachedMetadataProvider of a server, the copy it keeps in the       *)
(* cached_data table, and the `authelia storage cache mds3` commands that  *)
(* write the same row.                                                     *)
(*                                                                         *)
(* A blob is its number v, due for an update at the time NextUpdate(v);    *)
(* the service publishes them in order.  The server's mutex makes each     *)
(* method atomic among its requests; its reads and writes of the table     *)
(* interleave with those of the command.                                   *)
(***************************************************************************)
EXTENDS Integers

CONSTANTS MaxNow,    \* bound: the clock
          MaxBlob,   \* bound: blobs published
          NoBlob,    \* no row, no blob
          Corrupt    \* a row that does not parse

VARIABLES policy,    \* webauthn.metadata.cache_policy
          now,
          pub,       \* the number the service publishes
          cache,     \* the row
          server,    \* [phase, number, data]
          admin,     \* the running update command, or its end
          crossed    \* ghost: the row was written by the other process since it was read

MetadataAssumption == MaxNow \in Nat /\ MaxBlob \in Nat \ {0}

Blobs == 1 .. MaxBlob
NextUpdate(v) == v

\* Outdated, of a provider that holds blob n; the zero time is in the past.
Outdated(n) == n \in Blobs => now > NextUpdate(n)

Down == [phase |-> "down", number |-> NoBlob, data |-> NoBlob]
NoCommand == [phase |-> "idle"]

InitMetadata ==
  /\ policy \in {"strict", "relaxed"}
  /\ now = 0 /\ pub = 1
  /\ cache \in {NoBlob, Corrupt, 1}
  /\ server = Down /\ admin = NoCommand /\ crossed = FALSE

\* FetchMDS3 with If-None-Match when a blob is held: the blob, nothing (304),
\* or an error (429, another status, a failed request, an unreadable body).
Fetch(current) == {[error |-> TRUE, data |-> NoBlob],
                   [error |-> FALSE, data |-> IF current = pub THEN NoBlob ELSE pub]}

-----------------------------------------------------------------------------
(* StartupCheck: the row is loaded if it can be, the current blob fetched; *)
(* a fetch error is fatal under the strict policy, and what is held in the *)
(* end must be a blob that is not outdated.  A fetched blob is then saved. *)
Held(f) == IF f.data # NoBlob THEN f.data ELSE IF cache \in Blobs THEN cache ELSE NoBlob
Starts(f) ==
  /\ f.error => policy = "relaxed"
  /\ Held(f) # NoBlob /\ ~(now > NextUpdate(Held(f)))

StartupCheck ==
  /\ server.phase = "down"
  /\ \E f \in Fetch(IF cache \in Blobs THEN cache ELSE NoBlob) :
       /\ Starts(f)
       /\ server' = [phase |-> IF f.data = NoBlob THEN "up" ELSE "starting",
                     number |-> Held(f), data |-> f.data]
  /\ crossed' = FALSE
  /\ UNCHANGED <<policy, now, pub, cache, admin>>

\* saveCache at the end of StartupCheck and of an outdated GetEntry; nothing
\* is saved, and the lookup fails, when there is no data.
SaveCache ==
  /\ server.phase \in {"starting", "lookup"}
  /\ IF server.data = NoBlob
     THEN cache' = cache /\ server' = [server EXCEPT !.phase = "up"]
     ELSE cache' = server.data
          /\ server' = [server EXCEPT !.phase = IF @ = "lookup" THEN "answered" ELSE "up"]
  /\ UNCHANGED <<policy, now, pub, admin, crossed>>

\* GetEntry.  When the held blob is outdated the row is read again, and only an
\* unreadable row makes it ask the service.
GetEntry ==
  /\ server.phase \in {"up", "answered"}
  /\ IF ~Outdated(server.number)
     THEN server' = [server EXCEPT !.phase = "answered"] /\ UNCHANGED crossed
     ELSE /\ \E d \in IF cache # Corrupt THEN {cache}
                      ELSE {f.data : f \in {f \in Fetch(NoBlob) : ~f.error}} :
               server' = [phase |-> "lookup", number |-> IF d = NoBlob THEN server.number ELSE d,
                          data |-> d]
          /\ crossed' = FALSE
  /\ UNCHANGED <<policy, now, pub, cache, admin>>

Restart == server.phase # "down" /\ server' = Down /\ UNCHANGED <<policy, now, pub, cache, admin, crossed>>

-----------------------------------------------------------------------------
(* `storage cache mds3 update`: the row must be readable; an up-to-date    *)
(* one is left alone without --force; the new blob comes from a file, or   *)
(* from the service, and is refused when outdated, again without --force.  *)
UpdateLoad ==
  /\ admin.phase = "idle" /\ cache # Corrupt
  /\ \E force \in BOOLEAN :
       /\ force \/ Outdated(cache)
       /\ \/ \E v \in 1 .. pub : admin' = [phase |-> "save", force |-> force, file |-> TRUE, data |-> v]
          \/ \E f \in Fetch(IF force THEN NoBlob ELSE cache) :
               /\ ~f.error /\ f.data # NoBlob
               /\ admin' = [phase |-> "save", force |-> force, file |-> FALSE, data |-> f.data]
       /\ force \/ ~Outdated(admin'.data)
  /\ UNCHANGED <<policy, now, pub, cache, server, crossed>>

UpdateSave ==
  /\ admin.phase = "save"
  /\ cache' = admin.data /\ crossed' = TRUE /\ admin' = [phase |-> "done"]
  /\ UNCHANGED <<policy, now, pub, server>>

\* `storage cache mds3 delete`
CacheDelete ==
  /\ admin.phase = "idle"
  /\ cache' = NoBlob /\ crossed' = TRUE /\ admin' = [phase |-> "done"]
  /\ UNCHANGED <<policy, now, pub, server>>

\* `storage cache mds3 status`, and the blob `storage cache mds3 dump` writes to
\* its file: a row that is missing or does not parse is refused.
CacheStatus == [valid |-> cache # Corrupt, initialized |-> cache \in Blobs,
                outdated |-> cache \in Blobs /\ Outdated(cache)]
CacheDump == IF cache \in Blobs THEN cache ELSE NoBlob

Publish == pub < MaxBlob /\ pub' = pub + 1 /\ UNCHANGED <<policy, now, cache, server, admin, crossed>>
Tick == now < MaxNow /\ now' = now + 1 /\ UNCHANGED <<policy, pub, cache, server, admin, crossed>>

NextMetadata ==
  \/ StartupCheck \/ SaveCache \/ GetEntry \/ Restart
  \/ UpdateLoad \/ UpdateSave \/ CacheDelete \/ Publish \/ Tick

-----------------------------------------------------------------------------
\* A server that passed its check holds a blob, and a lookup is answered only
\* from one: an outdated provider whose row is missing gives an error.  And the
\* status command tells an administrator what a restart without the service
\* would find: a relaxed server starts from the row exactly when it is reported
\* initialized and not outdated, and then with the blob that a dump writes.
AnswersLoaded ==
  /\ LET unreachable == [error |-> TRUE, data |-> NoBlob] IN
       /\ policy = "relaxed" =>
            (Starts(unreachable) <=> CacheStatus.initialized /\ ~CacheStatus.outdated)
       /\ Held(unreachable) = CacheDump
       /\ CacheDump # NoBlob <=> CacheStatus.initialized
       /\ CacheStatus.initialized => CacheStatus.valid
  /\ server.phase # "down" => server.number \in Blobs
  /\ cache \in Blobs \cup {NoBlob, Corrupt}

\* Where nobody wrote the row in between, what a server saves is never older
\* than the row it read, whichever of the two methods saves it; a blob a server
\* starts with is not outdated when the check passes; and a server is
\* never answered by a blob older than the one it started with, unless a
\* command put an older blob in the row.
MetadataKept ==
  /\ (server.phase \in {"starting", "lookup"} /\ server'.phase # server.phase /\ ~crossed
        /\ cache \in Blobs) => cache' >= cache
  /\ (server.phase = "down" /\ server'.phase # "down") => now <= NextUpdate(server'.number)
  /\ (server.phase # "down" /\ server'.phase # "down" /\ server'.number < server.number) =>
        admin.phase = "done"
=============================================================================
