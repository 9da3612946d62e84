-------------------------- MODULE FileUserDatabase --------------------------
(***************************************************************************)
(* The file backend of users: FileUserProvider over FileUserDatabase       *)
(* (authentication/file_user_provider*.go), reloaded by the file watcher   *)
(* (service/file_watcher.go).                                              *)
(*                                                                         *)
(* The database is a map in memory, guarded by a read-write mutex, and a   *)
(* file that is replaced as a whole on every change.  With Watch an fsnotify*)
(* event for the file reloads the map, unless the provider's own write or  *)
(* another reload set the cooldown less than half a second ago.            *)
(***************************************************************************)
EXTENDS Naturals, FiniteSets, TLAPS

CONSTANTS Writers,     \* goroutines that change accounts
          Users,       \* usernames
          Passwords,   \* password digests
          NoPassword,  \* the digest of an account that awaits its first password
          NoAccount,   \* the entry of a user that does not exist
          Empty,       \* a file without content
          Nobody,      \* holder of a free mutex
          Watch,       \* authentication_backend.file.watch
          MaxEvents,   \* bound: pending events when a change is requested
          MaxEdits,    \* bound: edits of the file by other programs
          MaxFaults    \* bound: failed directory syncs and crashes

ASSUME WatchAssumption == Watch \in BOOLEAN
ASSUME BoundsAssumption == MaxEvents \in Nat /\ MaxEdits \in Nat /\ MaxFaults \in Nat
ASSUME NobodyAssumption == Nobody \notin Writers

Statuses == {"enabled", "disabled"}

Accounts == [pw : Passwords \cup {NoPassword}, status : Statuses]

ASSUME NoAccountAssumption == NoAccount \notin Accounts

Contents == [Users -> Accounts \cup {NoAccount}]

ASSUME EmptyAssumption == Empty \notin Contents

VARIABLES
    file,     \* what a reader of the file finds
    synced,   \* what the file holds after a power failure
    mem,      \* FileUserDatabase.Users
    mutex,    \* who holds FileUserDatabase.RWMutex for writing
    pmutex,   \* who holds FileUserProvider.mutex: the watcher or nobody
    cooldown, \* now is before timeoutReload
    events,   \* fsnotify events not yet handled
    reload,   \* where the watcher is in Reload: [at, read]
    pc,       \* where each writer is
    op,       \* what each writer does: [kind, user, arg]
    next,     \* the content each writer is about to install
    up,       \* the process runs
    editing,  \* another program has truncated the file and not yet written it
    edits, faults,
    stale     \* history: a reload installed a content the file no longer had

watcher == <<pmutex, cooldown, events, reload>>
disk == <<file, synced, editing, edits>>
writer == <<pc, op, next>>
vars == <<disk, mem, mutex, watcher, writer, up, faults, stale>>

Kinds == {"CreateUser", "AdminUpdateUser", "AdminDeleteUser", "UpdatePassword",
          "AdminResetUserPassword", "ChangePassword"}

NoOp == [kind |-> "none", user |-> Nobody, arg |-> Nobody]

NoReload == [at |-> "idle", read |-> Empty]

Init ==
    /\ file \in Contents
    /\ synced = file /\ mem = file
    /\ mutex = Nobody /\ pmutex = Nobody
    /\ cooldown = FALSE
    /\ events = 0
    /\ reload = NoReload
    /\ pc = [w \in Writers |-> "idle"]
    /\ op = [w \in Writers |-> NoOp]
    /\ next = [w \in Writers |-> Empty]
    /\ up = TRUE /\ editing = FALSE /\ stale = FALSE
    /\ edits = 0 /\ faults = 0

-----------------------------------------------------------------------------
(* The operations of FileUserProvider.                                     *)

\* The arguments of a call: a new password, or a new status for
\* AdminUpdateUser; CreateUser makes an account of either status.
Arguments(kind) ==
    CASE kind = "CreateUser" -> Accounts
      [] kind = "AdminUpdateUser" -> Statuses
      [] kind = "AdminDeleteUser" -> {Nobody}
      [] OTHER -> Passwords

Calls == {NoOp} \cup UNION {[kind : {k}, user : Users, arg : Arguments(k)] : k \in Kinds}

\* A call has looked at what it looks at first and hashed the password; it
\* goes on to ask the database for the change.
Request(w, kind, u, arg) ==
    /\ up /\ pc[w] = "idle" /\ events < MaxEvents
    /\ op' = [op EXCEPT ![w] = [kind |-> kind, user |-> u, arg |-> arg]]
    /\ pc' = [pc EXCEPT ![w] = "lock"]
    /\ UNCHANGED <<disk, mem, mutex, watcher, next, up, faults, stale>>

\* The name must be free; the lookup waits for a writer.
CreateUser(w, u, account) ==
    /\ mutex = Nobody /\ mem[u] = NoAccount
    /\ Request(w, "CreateUser", u, account)

AdminUpdateUser(w, u, status) == Request(w, "AdminUpdateUser", u, status)

AdminDeleteUser(w, u) == Request(w, "AdminDeleteUser", u, Nobody)

AdminResetUserPassword(w, u, p) == Request(w, "AdminResetUserPassword", u, p)

UpdatePassword(w, u, p) == Request(w, "UpdatePassword", u, p)

\* The account must be enabled, with a password that is not the new one and
\* that the caller knows.
ChangePassword(w, u, p) ==
    /\ mutex = Nobody /\ mem[u] # NoAccount
    /\ mem[u].status = "enabled" /\ mem[u].pw \notin {p, NoPassword}
    /\ Request(w, "ChangePassword", u, p)

-----------------------------------------------------------------------------
(* The operations of FileUserDatabase.  Each takes the mutex and computes   *)
(* the change on a copy of the map.                                        *)

Return(w) ==
    /\ pc' = [pc EXCEPT ![w] = "idle"]
    /\ op' = [op EXCEPT ![w] = NoOp]
    /\ next' = [next EXCEPT ![w] = Empty]

\* The copy, with the new entry, is ready to be written.
Stage(w, entry) ==
    /\ mutex' = w
    /\ next' = [next EXCEPT ![w] = [mem EXCEPT ![op[w].user] = entry]]
    /\ pc' = [pc EXCEPT ![w] = "write"]
    /\ UNCHANGED op

\* The database has the mutex and accepts the change, or returns an error.
Change(w, kinds, accepts, entry) ==
    /\ up /\ pc[w] = "lock" /\ op[w].kind \in kinds /\ mutex = Nobody
    /\ IF accepts THEN Stage(w, entry) ELSE Return(w) /\ UNCHANGED mutex
    /\ UNCHANGED <<disk, mem, watcher, up, faults, stale>>

CreateUserDetails(w) ==
    Change(w, {"CreateUser"}, mem[op[w].user] = NoAccount, op[w].arg)

DeleteUserDetails(w) ==
    Change(w, {"AdminDeleteUser"}, mem[op[w].user] # NoAccount, NoAccount)

\* The closures given to UpdateUserDetails set their own field of the entry
\* that is in the map now.
Updated(o) ==
    IF o.kind = "AdminUpdateUser" THEN [mem[o.user] EXCEPT !.status = o.arg]
    ELSE [mem[o.user] EXCEPT !.pw = o.arg]

UpdateKinds == Kinds \ {"CreateUser", "AdminDeleteUser"}

\* The closure of UpdatePassword refuses a disabled account.
Updatable(o) ==
    /\ mem[o.user] # NoAccount
    /\ o.kind = "UpdatePassword" => mem[o.user].status = "enabled"

\* Mutant: a password change writes back the entry it checked.
UpdateUserDetails_Checked(w) ==
    Change(w, UpdateKinds, Updatable(op[w]),
           IF op[w].kind = "AdminUpdateUser" THEN Updated(op[w])
           ELSE [pw |-> op[w].arg, status |-> "enabled"])

UpdateUserDetails(w) ==
    Change(w, UpdateKinds, Updatable(op[w]), Updated(op[w]))

\* The watcher hears of the file, once per change of it.
Notify == events' = IF Watch THEN events + 1 ELSE events

\* FileDatabaseModel.Write up to the rename: the content goes to a temporary
\* file, which is synced before it takes the name of the database.  A program
\* that has truncated the old file goes on to write one without a name.
Rename(w) ==
    /\ up /\ pc[w] = "write"
    /\ file' = next[w]
    /\ editing' = FALSE
    /\ Notify
    /\ pc' = [pc EXCEPT ![w] = "sync"]
    /\ UNCHANGED <<synced, edits, mem, mutex, pmutex, cooldown, reload, op,
                   next, up, faults, stale>>

\* Mutant: the error of Write is dropped.
WriteFails_Ignored(w) ==
    /\ up /\ pc[w] = "write"
    /\ mutex' = Nobody
    /\ mem' = next[w]
    /\ Return(w)
    /\ UNCHANGED <<disk, watcher, up, faults, stale>>

\* Mutant: a failed write is tried again for ever.
WriteFails_Retry(w) ==
    /\ up /\ pc[w] = "write"
    /\ mutex' = Nobody
    /\ pc' = [pc EXCEPT ![w] = "lock"]
    /\ next' = [next EXCEPT ![w] = Empty]
    /\ UNCHANGED <<disk, mem, watcher, op, up, faults, stale>>

\* Any step of Write up to the rename fails: the temporary file is removed.
WriteFails(w) ==
    /\ up /\ pc[w] = "write"
    /\ mutex' = Nobody
    /\ Return(w)
    /\ UNCHANGED <<disk, mem, watcher, up, faults, stale>>

\* The directory is synced, Write returns and the copy becomes the map.
Install(w) ==
    /\ up /\ pc[w] = "sync"
    /\ synced' = next[w]
    /\ mem' = next[w]
    /\ mutex' = Nobody
    /\ pc' = [pc EXCEPT ![w] = "cool"]
    /\ UNCHANGED <<file, editing, edits, watcher, op, next, up, faults,
                   stale>>

\* Opening, syncing or closing the directory fails: the call reports an error
\* and the map stays as it was, though the file is already the new one.
SyncFails(w) ==
    /\ up /\ pc[w] = "sync"
    /\ faults < MaxFaults /\ faults' = faults + 1
    /\ mutex' = Nobody
    /\ Return(w)
    /\ UNCHANGED <<disk, mem, watcher, up, stale>>

\* setTimeoutReload under the provider's own mutex, then the call returns.
SetTimeoutReload(w) ==
    /\ up /\ pc[w] = "cool" /\ pmutex = Nobody
    /\ cooldown' = TRUE
    /\ Return(w)
    /\ UNCHANGED <<disk, mem, mutex, pmutex, events, reload, up, faults, stale>>

\* Half a second passes.
CooldownEnds ==
    /\ cooldown /\ cooldown' = FALSE
    /\ UNCHANGED <<disk, mem, mutex, pmutex, events, reload, writer, up, faults,
                   stale>>

-----------------------------------------------------------------------------
(* The watcher.                                                            *)

\* handleEvent calls Reload, which skips during the cooldown.
HandleEvent ==
    /\ up /\ events > 0 /\ reload = NoReload /\ pmutex = Nobody
    /\ events' = events - 1
    /\ IF cooldown
       THEN UNCHANGED <<pmutex, reload>>
       ELSE /\ pmutex' = "watcher"
            /\ reload' = [reload EXCEPT !.at = "read"]
    /\ UNCHANGED <<disk, mem, mutex, cooldown, writer, up, faults, stale>>

\* Load reads the file without the mutex; an empty file is left alone.
LoadRead ==
    /\ up /\ reload.at = "read"
    /\ IF file = Empty
       THEN reload' = NoReload /\ pmutex' = Nobody
       ELSE reload' = [at |-> "install", read |-> file] /\ UNCHANGED pmutex
    /\ UNCHANGED <<disk, mem, mutex, cooldown, events, writer, up, faults, stale>>

\* Load takes the mutex and replaces the map.  The cooldown counts from the
\* start of Reload and may already be over.
LoadInstall ==
    /\ up /\ reload.at = "install" /\ mutex = Nobody
    /\ mem' = reload.read
    /\ stale' = (stale \/ reload.read # file)
    /\ cooldown' \in BOOLEAN
    /\ reload' = NoReload /\ pmutex' = Nobody
    /\ UNCHANGED <<disk, mutex, events, writer, up, faults>>

-----------------------------------------------------------------------------
(* The surroundings: other programs that edit the file, and crashes.       *)

EditTruncate ==
    /\ edits < MaxEdits /\ ~editing
    /\ edits' = edits + 1
    /\ editing' = TRUE
    /\ file' = Empty
    /\ IF up THEN Notify ELSE UNCHANGED events
    /\ UNCHANGED <<synced, mem, mutex, pmutex, cooldown, reload, writer,
                   up, faults, stale>>

EditWrite(c) ==
    /\ editing /\ editing' = FALSE
    /\ file' = c
    /\ IF up THEN Notify ELSE UNCHANGED events
    /\ UNCHANGED <<synced, edits, mem, mutex, pmutex, cooldown, reload, writer,
                   up, faults, stale>>

\* The process or the machine stops.
Crash ==
    /\ up /\ up' = FALSE
    /\ faults < MaxFaults /\ faults' = faults + 1
    /\ file' \in {file, synced}
    /\ mutex' = Nobody /\ pmutex' = Nobody /\ cooldown' = FALSE /\ events' = 0
    /\ reload' = NoReload
    /\ pc' = [w \in Writers |-> "idle"]
    /\ op' = [w \in Writers |-> NoOp]
    /\ next' = [w \in Writers |-> Empty]
    /\ UNCHANGED <<synced, editing, edits, mem, stale>>

\* StartupCheck loads the file; an empty one keeps the server from starting.
StartupCheck ==
    /\ ~up /\ file # Empty
    /\ up' = TRUE
    /\ mem' = file
    /\ UNCHANGED <<disk, mutex, watcher, writer, faults, stale>>

Progress(w) ==
    \/ CreateUserDetails(w) \/ DeleteUserDetails(w) \/ UpdateUserDetails(w)
    \/ Rename(w) \/ WriteFails(w) \/ Install(w) \/ SyncFails(w)
    \/ SetTimeoutReload(w)

Watching == HandleEvent \/ LoadRead \/ LoadInstall

Next ==
    \/ \E w \in Writers, u \in Users :
          \/ \E account \in Accounts : CreateUser(w, u, account)
          \/ \E status \in Statuses : AdminUpdateUser(w, u, status)
          \/ AdminDeleteUser(w, u)
          \/ \E p \in Passwords : \/ AdminResetUserPassword(w, u, p)
                                 \/ UpdatePassword(w, u, p)
                                 \/ ChangePassword(w, u, p)
    \/ \E w \in Writers : Progress(w)
    \/ Watching
    \/ CooldownEnds
    \/ EditTruncate
    \/ \E c \in Contents : EditWrite(c)
    \/ Crash
    \/ StartupCheck

Spec == Init /\ [][Next]_vars

\* Goroutines keep running, mutexes are handed over, time passes, a stopped
\* server is started again and an editor finishes what it began.
FairSpec ==
    /\ Spec
    /\ \A w \in Writers : SF_vars(Progress(w))
    /\ WF_vars(HandleEvent) /\ WF_vars(LoadRead) /\ SF_vars(LoadInstall)
    /\ WF_vars(CooldownEnds)
    /\ WF_vars(StartupCheck)
    /\ WF_vars(\E c \in Contents : EditWrite(c))

-----------------------------------------------------------------------------
(* Properties.                                                             *)

\* Every variable keeps its type.
TypeOK ==
    /\ file \in Contents \cup {Empty}
    /\ synced \in Contents
    /\ mem \in Contents
    /\ mutex \in Writers \cup {Nobody}
    /\ pmutex \in {"watcher", Nobody}
    /\ cooldown \in BOOLEAN /\ up \in BOOLEAN
    /\ editing \in BOOLEAN /\ stale \in BOOLEAN
    /\ events \in Nat
    /\ reload \in [at : {"idle", "read", "install"}, read : Contents \cup {Empty}]
    /\ pc \in [Writers -> {"idle", "lock", "write", "sync", "cool"}]
    /\ op \in [Writers -> Calls]
    /\ next \in [Writers -> Contents \cup {Empty}]
    /\ edits \in 0..MaxEdits /\ faults \in 0..MaxFaults

\* The map only ever takes what the file holds, or held when a reload read it
\* or a change was renamed to it: no caller sees a change that was refused, that
\* failed to be written or that is half written.
MemoryFromDisk ==
    mem' # mem =>
        \/ mem' \in {file, reload.read} \ {Empty}
        \/ \E w \in Writers : pc[w] = "sync" /\ mem' = next[w]

\* Nobody but another program leaves the file without content, whatever step a
\* change is at and whenever the process stops.
FileWhole == file = Empty => editing

\* With no other program editing the file and no fault, the map and the file
\* differ only while a change is being written, unless a reload has installed
\* a content that was replaced after it was read.
MemoryMatchesFile ==
    edits = 0 /\ faults = 0 /\ ~stale =>
        \/ mem = file
        \/ \E w \in Writers : mutex = w /\ pc[w] = "sync" /\ file = next[w]

\* The file is never half written and agrees with the map, but for a change in
\* progress.
FileSound == TypeOK /\ FileWhole /\ MemoryMatchesFile

\* A change that was acknowledged survives a power failure: the file the server
\* starts from is the map the callers saw, or a change that was in flight.
CrashKeepsAcknowledged ==
    up /\ ~up' /\ edits = 0 /\ faults = 0 /\ ~stale
        => \/ file' = mem
           \/ \E w \in Writers : pc[w] = "sync" /\ file' = next[w]

\* Password changes never bring a disabled account back, although
\* ChangePassword checked the account before it waited for the mutex.
PasswordKeepsStatus ==
    \A w \in Writers, u \in Users :
        /\ Install(w)
        /\ op[w].kind \in {"ChangePassword", "UpdatePassword", "AdminResetUserPassword"}
        /\ mem[u] # NoAccount
        => mem'[u] # NoAccount /\ mem'[u].status = mem[u].status

\* Of two creations of the same user one fails: no account is overwritten.
CreateOverwritesNothing ==
    \A w \in Writers :
        Install(w) /\ op[w].kind = "CreateUser" => mem[op[w].user] = NoAccount

\* What no step of a writer, the watcher or a crash does to the accounts: the
\* four statements above.
AccountsSafe ==
    [][/\ MemoryFromDisk
       /\ CrashKeepsAcknowledged
       /\ PasswordKeepsStatus
       /\ CreateOverwritesNothing]_vars

\* An acknowledged change stays: with no fault and no other program editing
\* the file, a reload brings back no earlier content of the database.
ReloadsKeepChanges ==
    [][LoadInstall /\ edits = 0 /\ faults = 0 => mem' = mem]_vars

-----------------------------------------------------------------------------
(* Proofs, for any number of goroutines, users and passwords, and without   *)
(* a bound on events: FileSound and AccountsSafe.                           *)

\* The mutex is held by the goroutine that writes, and by no other.
Critical == \A w \in Writers : mutex = w <=> pc[w] \in {"write", "sync"}

\* A server that is down has no calls, and went down by a fault.
Rests == ~up => mutex = Nobody /\ faults > 0 /\ \A w \in Writers : pc[w] = "idle"

\* What a call does to the entry of its user, and what it found it to be.
Entry(o) ==
    CASE o.kind = "CreateUser" -> o.arg
      [] o.kind = "AdminDeleteUser" -> NoAccount
      [] OTHER -> Updated(o)

Accepted(o) == mem[o.user] = NoAccount <=> o.kind = "CreateUser"

\* While a change is written the map is still the one it was computed from.
Staged ==
    \A w \in Writers : pc[w] \in {"write", "sync"} =>
        /\ op[w].kind \in Kinds
        /\ Accepted(op[w])
        /\ next[w] = [mem EXCEPT ![op[w].user] = Entry(op[w])]

\* What a reload is about to install was read from a file with content.
ReadWhole == reload.at = "install" => reload.read # Empty

\* Another program that is at the file was counted.
Edited == editing => edits # 0

\* Without faults and other programs the map is on disk, and a file that a change
\* has replaced has the content of this change.
Durable ==
    edits = 0 /\ faults = 0 /\ ~stale =>
        synced = mem /\ \A w \in Writers : pc[w] = "sync" => file = next[w]

\* The inductive invariant.
FInv ==
    /\ FileSound
    /\ Critical /\ Rests /\ Staged
    /\ ReadWhole /\ Edited /\ Durable

\* The parts of a call.
LEMMA CallType ==
    ASSUME TypeOK, NEW w \in Writers, op[w].kind \in Kinds
    PROVE  /\ op[w].user \in Users
           /\ op[w].kind = "CreateUser" => op[w].arg \in Accounts
           /\ op[w].kind = "AdminUpdateUser" => op[w].arg \in Statuses
           /\ op[w].kind \notin {"CreateUser", "AdminUpdateUser", "AdminDeleteUser"} =>
                op[w].arg \in Passwords
<1>1. op[w] # NoOp
  BY DEF NoOp, Kinds
<1>2. PICK kind \in Kinds : op[w] \in [kind : {kind}, user : Users, arg : Arguments(kind)]
  <2>1. op[w] \in Calls
    BY DEF TypeOK
  <2> QED
    BY <2>1, <1>1 DEF Calls
<1>3. op[w].kind = kind /\ op[w].user \in Users /\ op[w].arg \in Arguments(kind)
  BY <1>2
<1>4. /\ kind = "CreateUser" => Arguments(kind) = Accounts
      /\ kind = "AdminUpdateUser" => Arguments(kind) = Statuses
      /\ kind \notin {"CreateUser", "AdminUpdateUser", "AdminDeleteUser"} =>
           Arguments(kind) = Passwords
  BY DEF Arguments
<1> QED
  BY <1>3, <1>4

\* What a change makes of the map is a map of accounts.
LEMMA StagedContent ==
    ASSUME TypeOK, NEW w \in Writers, op[w].kind \in Kinds, Accepted(op[w])
    PROVE  [mem EXCEPT ![op[w].user] = Entry(op[w])] \in Contents
<1>1. /\ mem \in [Users -> Accounts \cup {NoAccount}] /\ op[w].user \in Users
      /\ mem[op[w].user] \in Accounts \cup {NoAccount}
  BY CallType DEF TypeOK, Contents
<1>2. CASE op[w].kind = "CreateUser"
  <2>1. Entry(op[w]) \in Accounts
    BY <1>2, CallType DEF Entry
  <2> QED
    BY <2>1, <1>1 DEF Contents
<1>3. CASE op[w].kind = "AdminDeleteUser"
  <2>1. Entry(op[w]) = NoAccount
    BY <1>3 DEF Entry
  <2> QED
    BY <2>1, <1>1 DEF Contents
<1>4. CASE op[w].kind \notin {"CreateUser", "AdminDeleteUser"}
  <2>1. mem[op[w].user] \in Accounts
    BY <1>1, <1>4 DEF Accepted
  <2>2. Entry(op[w]) = Updated(op[w])
    BY <1>4 DEF Entry
  <2>3. ASSUME op[w].kind = "AdminUpdateUser" PROVE Updated(op[w]) \in Accounts
    BY <2>1, <2>3, CallType DEF Updated, Accounts
  <2>4. ASSUME op[w].kind # "AdminUpdateUser" PROVE Updated(op[w]) \in Accounts
    BY <2>1, <2>4, <1>4, CallType DEF Updated, Accounts
  <2>5. Entry(op[w]) \in Accounts
    BY <2>2, <2>3, <2>4
  <2> QED
    BY <2>5, <1>1 DEF Contents
<1> QED
  BY <1>2, <1>3, <1>4

\* A step outside of the critical sections.
LEMMA Undisturbed ==
    ASSUME FInv, TypeOK', ReadWhole',
           UNCHANGED <<file, synced, editing, edits, mem, mutex, up, faults, stale>>,
           ~up => \A w \in Writers : pc'[w] = "idle",
           \A w \in Writers :
             /\ pc'[w] \in {"write", "sync"} <=> pc[w] \in {"write", "sync"}
             /\ pc[w] \in {"write", "sync"} =>
                  pc'[w] = pc[w] /\ op'[w] = op[w] /\ next'[w] = next[w]
    PROVE  FInv'
<1>1. Critical' /\ Rests' /\ Durable' /\ Edited'
  BY DEF FInv, Critical, Rests, Durable, Edited
<1>2. Staged'
  BY DEF FInv, Staged, Accepted, Entry, Updated
<1>3. FileWhole' /\ MemoryMatchesFile'
  BY DEF FInv, FileSound, FileWhole, MemoryMatchesFile
<1> QED
  BY <1>1, <1>2, <1>3 DEF FInv, FileSound

\* A request is taken up.
LEMMA RequestInv ==
    ASSUME FInv, NEW w \in Writers, NEW u \in Users, NEW kind \in Kinds,
           NEW arg \in Arguments(kind), Request(w, kind, u, arg)
    PROVE  FInv'
<1>1. PICK call \in Calls : call = [kind |-> kind, user |-> u, arg |-> arg]
  <2>1. [kind |-> kind, user |-> u, arg |-> arg] \in
          [kind : {kind}, user : Users, arg : Arguments(kind)]
    OBVIOUS
  <2> QED
    BY Zenon, <2>1 DEF Calls
<1>2. /\ up /\ pc[w] = "idle" /\ op' = [op EXCEPT ![w] = call]
      /\ pc' = [pc EXCEPT ![w] = "lock"]
      /\ UNCHANGED <<file, synced, editing, edits, mem, mutex, up, faults, stale>>
      /\ UNCHANGED <<pmutex, cooldown, events, reload, next>>
  BY <1>1 DEF Request, disk, watcher
<1>3. TypeOK /\ TypeOK'
  BY <1>2 DEF FInv, FileSound, TypeOK
<1>4. ReadWhole'
  BY <1>2 DEF FInv, ReadWhole
<1>5. \A v \in Writers :
        /\ pc'[v] \in {"write", "sync"} <=> pc[v] \in {"write", "sync"}
        /\ pc[v] \in {"write", "sync"} =>
             pc'[v] = pc[v] /\ op'[v] = op[v] /\ next'[v] = next[v]
  BY <1>2, <1>3 DEF TypeOK
<1> QED
  BY <1>2, <1>3, <1>4, <1>5, Undisturbed

\* A call that is outside of its critical section returns.
LEMMA ReturnInv ==
    ASSUME FInv, NEW w \in Writers, up, pc[w] \notin {"write", "sync"}, Return(w),
           UNCHANGED <<file, synced, editing, edits, mem, mutex, up, faults, stale>>,
           UNCHANGED <<pmutex, events, reload>>, cooldown' \in BOOLEAN
    PROVE  FInv'
<1>1. /\ pc' = [pc EXCEPT ![w] = "idle"] /\ op' = [op EXCEPT ![w] = NoOp]
      /\ next' = [next EXCEPT ![w] = Empty]
  BY DEF Return
<1>2. TypeOK /\ TypeOK'
  BY <1>1 DEF FInv, FileSound, TypeOK, Calls
<1>3. ReadWhole'
  BY DEF FInv, ReadWhole
<1>4. \A v \in Writers :
        /\ pc'[v] \in {"write", "sync"} <=> pc[v] \in {"write", "sync"}
        /\ pc[v] \in {"write", "sync"} =>
             pc'[v] = pc[v] /\ op'[v] = op[v] /\ next'[v] = next[v]
  BY <1>1, <1>2 DEF TypeOK
<1> QED
  BY <1>2, <1>3, <1>4, Undisturbed

\* A change is computed under the mutex.
LEMMA StageInv ==
    ASSUME FInv, NEW w \in Writers, up, pc[w] = "lock", mutex = Nobody,
           op[w].kind \in Kinds, Accepted(op[w]), Stage(w, Entry(op[w])),
           UNCHANGED <<file, synced, editing, edits, mem, up, faults, stale>>,
           UNCHANGED <<pmutex, cooldown, events, reload>>
    PROVE  FInv'
<1>0. TypeOK
  BY DEF FInv, FileSound
<1>1. PICK c \in Contents : c = [mem EXCEPT ![op[w].user] = Entry(op[w])]
  BY <1>0, StagedContent, ZenonT(30)
<1>2. /\ mutex' = w /\ next' = [next EXCEPT ![w] = c]
      /\ pc' = [pc EXCEPT ![w] = "write"] /\ op' = op
  BY <1>1 DEF Stage
<1>3. TypeOK /\ TypeOK'
  BY <1>2 DEF FInv, FileSound, TypeOK
<1>4. \A v \in Writers : pc[v] \notin {"write", "sync"}
  BY NobodyAssumption DEF FInv, Critical
<1>5. \A v \in Writers : v # w => pc'[v] = pc[v]
  BY <1>2, <1>3 DEF TypeOK
<1>6. Critical' /\ Rests' /\ Durable' /\ ReadWhole' /\ Edited'
  BY SMTT(30), <1>2, <1>3, <1>4, <1>5 DEF FInv, Critical, Rests, Durable, ReadWhole, TypeOK, Edited
<1>7. Staged'
  <2> SUFFICES ASSUME NEW v \in Writers, pc'[v] \in {"write", "sync"}
               PROVE  /\ op'[v].kind \in Kinds
                      /\ Accepted(op[v])'
                      /\ next'[v] = [mem' EXCEPT ![op'[v].user] = Entry(op[v])']
    BY DEF Staged
  <2>1. v = w
    BY <1>4, <1>5
  <2>2. next'[w] = c
    BY <1>2, <1>3 DEF TypeOK
  <2>3. Entry(op[w])' = Entry(op[w]) /\ Accepted(op[w])'
    BY <1>2 DEF Entry, Updated, Accepted
  <2> QED
    BY <2>1, <2>2, <2>3, <1>1, <1>2
<1>8. FileWhole' /\ MemoryMatchesFile'
  BY <1>4, <1>5 DEF FInv, FileSound, FileWhole, MemoryMatchesFile
<1> QED
  BY <1>3, <1>6, <1>7, <1>8 DEF FInv, FileSound

\* The three operations of the database.
LEMMA ChangeInv ==
    ASSUME FInv, NEW w \in Writers,
           CreateUserDetails(w) \/ DeleteUserDetails(w) \/ UpdateUserDetails(w)
    PROVE  FInv'
<1>1. /\ up /\ pc[w] = "lock" /\ mutex = Nobody
      /\ UNCHANGED <<file, synced, editing, edits, mem, up, faults, stale>>
      /\ UNCHANGED <<pmutex, cooldown, events, reload>>
  BY DEF CreateUserDetails, DeleteUserDetails, UpdateUserDetails, Change, disk, watcher
<1>2. \/ Return(w) /\ mutex' = mutex
      \/ op[w].kind \in Kinds /\ Accepted(op[w]) /\ Stage(w, Entry(op[w]))
  <2>1. CASE CreateUserDetails(w)
    BY <2>1 DEF CreateUserDetails, Change, Kinds, Accepted, Entry
  <2>2. CASE DeleteUserDetails(w)
    BY <2>2 DEF DeleteUserDetails, Change, Kinds, Accepted, Entry
  <2>3. CASE UpdateUserDetails(w)
    BY <2>3 DEF UpdateUserDetails, Change, UpdateKinds, Updatable, Kinds, Accepted, Entry
  <2> QED
    BY <2>1, <2>2, <2>3
<1>3. CASE Return(w) /\ mutex' = mutex
  <2>1. cooldown' \in BOOLEAN
    BY <1>1 DEF FInv, FileSound, TypeOK
  <2> QED
    BY <2>1, <1>1, <1>3, ReturnInv
<1>4. CASE op[w].kind \in Kinds /\ Accepted(op[w]) /\ Stage(w, Entry(op[w]))
  BY <1>1, <1>4, StageInv
<1> QED
  BY <1>2, <1>3, <1>4

\* The file becomes the content that was staged.
LEMMA RenameInv ==
    ASSUME FInv, NEW w \in Writers, Rename(w)
    PROVE  FInv'
<1>1. /\ up /\ pc[w] = "write" /\ file' = next[w] /\ editing' = FALSE
      /\ pc' = [pc EXCEPT ![w] = "sync"]
      /\ UNCHANGED <<synced, edits, mem, mutex, op, next, up, faults, stale>>
      /\ UNCHANGED <<pmutex, cooldown, reload>>
  BY DEF Rename
<1>2. next[w] \in Contents /\ TypeOK
  <2>1. /\ TypeOK /\ op[w].kind \in Kinds /\ Accepted(op[w])
        /\ next[w] = [mem EXCEPT ![op[w].user] = Entry(op[w])]
    BY <1>1 DEF FInv, FileSound, Staged
  <2> QED
    BY Zenon, <2>1, StagedContent
<1>3. events' \in Nat
  BY <1>2 DEF Rename, Notify, TypeOK
<1>4. TypeOK'
  BY <1>1, <1>2, <1>3 DEF TypeOK
<1>5. /\ pc'[w] = "sync" /\ \A v \in Writers : v # w => pc'[v] = pc[v]
  BY <1>1, <1>2 DEF TypeOK
<1>6. mutex = w
  BY <1>1 DEF FInv, Critical
<1>7. Critical' /\ Rests' /\ Durable' /\ ReadWhole' /\ Edited'
  BY <1>1, <1>5, <1>6 DEF FInv, Critical, Rests, Durable, ReadWhole, Edited
<1>8. Staged'
  BY <1>1, <1>5 DEF FInv, Staged, Accepted, Entry, Updated
<1>9. FileWhole' /\ MemoryMatchesFile'
  BY <1>1, <1>2, <1>5, <1>6, EmptyAssumption DEF FileWhole, MemoryMatchesFile
<1> QED
  BY <1>4, <1>7, <1>8, <1>9 DEF FInv, FileSound

\* A change that is given up leaves its critical section: nothing was written, or
\* it was and the fault is counted.
LEMMA FailsInv ==
    ASSUME FInv, NEW w \in Writers, WriteFails(w) \/ SyncFails(w)
    PROVE  FInv'
<1>1. /\ up /\ pc[w] \in {"write", "sync"} /\ mutex' = Nobody
      /\ pc' = [pc EXCEPT ![w] = "idle"] /\ op' = [op EXCEPT ![w] = NoOp]
      /\ next' = [next EXCEPT ![w] = Empty]
      /\ UNCHANGED <<file, synced, editing, edits, mem, up, stale>>
      /\ UNCHANGED <<pmutex, cooldown, events, reload>>
  BY DEF WriteFails, SyncFails, Return, disk, watcher
<1>2. TypeOK
  BY DEF FInv, FileSound
<1>3. /\ faults' \in 0 .. MaxFaults
      /\ faults' = 0 => faults = 0 /\ pc[w] = "write"
  BY <1>2, BoundsAssumption DEF WriteFails, SyncFails, TypeOK
<1>4. TypeOK'
  BY <1>1, <1>2, <1>3 DEF TypeOK, Calls
<1>5. mutex = w /\ \A v \in Writers : v # w => pc'[v] = pc[v]
  BY <1>1, <1>2 DEF FInv, Critical, TypeOK
<1>6. \A v \in Writers : pc'[v] \notin {"write", "sync"}
  BY SMTT(30), <1>1, <1>2, <1>5 DEF FInv, Critical, TypeOK
<1>7. Critical' /\ Staged' /\ Rests' /\ ReadWhole'
  BY <1>1, <1>6, NobodyAssumption DEF FInv, Critical, Staged, Rests, ReadWhole
<1>8. Durable' /\ FileWhole' /\ Edited'
  BY <1>1, <1>3, <1>6 DEF FInv, FileSound, Durable, FileWhole, Edited
<1>9. MemoryMatchesFile'
  BY <1>1, <1>3, <1>5 DEF FInv, FileSound, MemoryMatchesFile
<1> QED
  BY <1>4, <1>7, <1>8, <1>9 DEF FInv, FileSound

\* The map becomes what was written.
LEMMA InstallInv ==
    ASSUME FInv, NEW w \in Writers, Install(w)
    PROVE  FInv'
<1>1. /\ up /\ pc[w] = "sync" /\ synced' = next[w] /\ mem' = next[w] /\ mutex' = Nobody
      /\ pc' = [pc EXCEPT ![w] = "cool"]
      /\ UNCHANGED <<file, editing, edits, op, next, up, faults, stale>>
      /\ UNCHANGED <<pmutex, cooldown, events, reload>>
  BY DEF Install, watcher
<1>2. next[w] \in Contents /\ TypeOK
  <2>1. /\ TypeOK /\ op[w].kind \in Kinds /\ Accepted(op[w])
        /\ next[w] = [mem EXCEPT ![op[w].user] = Entry(op[w])]
    BY <1>1 DEF FInv, FileSound, Staged
  <2> QED
    BY Zenon, <2>1, StagedContent
<1>3. TypeOK'
  BY <1>1, <1>2 DEF TypeOK
<1>4. mutex = w /\ \A v \in Writers : v # w => pc'[v] = pc[v]
  BY <1>1, <1>2 DEF FInv, Critical, TypeOK
<1>5. \A v \in Writers : pc'[v] \notin {"write", "sync"}
  BY SMTT(30), <1>1, <1>2, <1>4 DEF FInv, Critical, TypeOK
<1>6. Critical' /\ Staged' /\ Rests' /\ ReadWhole'
  BY <1>1, <1>5, NobodyAssumption DEF FInv, Critical, Staged, Rests, ReadWhole
<1>7. Durable' /\ FileWhole' /\ Edited'
  BY <1>1, <1>5 DEF FInv, FileSound, Durable, FileWhole, Edited
<1>8. MemoryMatchesFile'
  <2> SUFFICES ASSUME edits = 0, faults = 0, ~stale PROVE file = next[w]
    BY <1>1 DEF MemoryMatchesFile
  <2> QED
    BY <1>1 DEF FInv, Durable
<1> QED
  BY <1>3, <1>6, <1>7, <1>8 DEF FInv, FileSound

\* The watcher: a reload begins or is skipped, reads the file, and replaces the map.
LEMMA WatchingInv ==
    ASSUME FInv, Watching
    PROVE  FInv'
<1>1. TypeOK
  BY DEF FInv, FileSound
<1>2. CASE HandleEvent \/ LoadRead
  <2>1. UNCHANGED <<file, synced, editing, edits, mem, mutex, up, faults, stale>> /\ up
        /\ UNCHANGED <<pc, op, next>> /\ cooldown' = cooldown
    BY <1>2 DEF HandleEvent, LoadRead, disk, writer
  <2>2. events' \in Nat
    BY <1>1, <1>2 DEF HandleEvent, LoadRead, TypeOK
  <2>3. /\ pmutex' \in {"watcher", Nobody}
        /\ reload' \in [at : {"idle", "read", "install"}, read : Contents \cup {Empty}]
        /\ ReadWhole'
    BY <1>1, <1>2 DEF FInv, ReadWhole, HandleEvent, LoadRead, TypeOK, NoReload
  <2>4. TypeOK'
    BY <1>1, <2>1, <2>2, <2>3 DEF TypeOK
  <2> QED
    BY <2>1, <2>3, <2>4, Undisturbed
<1>3. CASE LoadInstall
  <2>1. /\ up /\ reload.at = "install" /\ mutex = Nobody /\ mem' = reload.read
        /\ cooldown' \in BOOLEAN /\ reload' = NoReload /\ pmutex' = Nobody
        /\ UNCHANGED <<file, synced, editing, edits, mutex, events, up, faults>>
        /\ UNCHANGED <<pc, op, next>>
    BY <1>3 DEF LoadInstall, disk, writer
  <2>2. stale' \in BOOLEAN /\ (~stale' => ~stale /\ reload.read = file)
    BY Zenon, <1>3 DEF LoadInstall
  <2>3. reload.read \in Contents
    BY <1>1, <2>1 DEF FInv, ReadWhole, TypeOK
  <2>4. TypeOK'
    BY <1>1, <2>1, <2>2, <2>3 DEF TypeOK, NoReload
  <2>5. \A v \in Writers : pc[v] \notin {"write", "sync"}
    BY <2>1, NobodyAssumption DEF FInv, Critical
  <2>6. Critical' /\ Staged' /\ Rests' /\ ReadWhole' /\ FileWhole' /\ Edited'
    BY <2>1, <2>5 DEF FInv, FileSound, Edited, Critical, Staged, Rests, ReadWhole, FileWhole, NoReload
  <2>7. Durable' /\ MemoryMatchesFile'
    BY <2>1, <2>2, <2>5 DEF FInv, FileSound, Durable, MemoryMatchesFile
  <2> QED
    BY <2>4, <2>6, <2>7 DEF FInv, FileSound
<1> QED
  BY <1>2, <1>3 DEF Watching

\* Another program edits the file.
LEMMA EditInv ==
    ASSUME FInv, EditTruncate \/ \E c \in Contents : EditWrite(c)
    PROVE  FInv'
<1>1. TypeOK
  BY DEF FInv, FileSound
<1>2. /\ UNCHANGED <<synced, mem, mutex, up, faults, stale>>
      /\ UNCHANGED <<pmutex, cooldown, reload>> /\ UNCHANGED <<pc, op, next>>
  BY DEF EditTruncate, EditWrite, writer
<1>3. events' \in Nat
  BY <1>1 DEF EditTruncate, EditWrite, Notify, TypeOK
<1>4. /\ file' \in Contents \cup {Empty} /\ editing' \in BOOLEAN
      /\ edits' \in 0 .. MaxEdits /\ FileWhole'
  <2>1. CASE EditTruncate
    BY <2>1, <1>1, BoundsAssumption DEF EditTruncate, TypeOK, FileWhole
  <2>2. CASE \E c \in Contents : EditWrite(c)
    BY <2>2, <1>1, EmptyAssumption DEF EditWrite, TypeOK, FileWhole
  <2> QED
    BY <2>1, <2>2
<1>5. edits' # 0
  <2>1. CASE EditTruncate
    BY <2>1, <1>1, BoundsAssumption DEF EditTruncate, TypeOK
  <2>2. CASE \E c \in Contents : EditWrite(c)
    BY <2>2 DEF EditWrite, FInv, Edited
  <2> QED
    BY <2>1, <2>2
<1>6. TypeOK'
  BY <1>1, <1>2, <1>3, <1>4 DEF TypeOK
<1>7. Critical' /\ Rests' /\ ReadWhole' /\ Durable' /\ MemoryMatchesFile' /\ Edited'
  BY <1>2, <1>5 DEF FInv, Critical, Rests, ReadWhole, Durable, MemoryMatchesFile, Edited
<1>8. Staged'
  BY <1>2 DEF FInv, Staged, Accepted, Entry, Updated
<1> QED
  BY <1>4, <1>6, <1>7, <1>8 DEF FInv, FileSound

\* The process stops, and starts again.
LEMMA RestartInv ==
    ASSUME FInv, Crash \/ StartupCheck
    PROVE  FInv'
<1>1. TypeOK
  BY DEF FInv, FileSound
<1>2. CASE Crash
  <2>1. /\ up' = FALSE /\ faults < MaxFaults /\ faults' = faults + 1
        /\ file' \in {file, synced} /\ mutex' = Nobody /\ pmutex' = Nobody
        /\ cooldown' = FALSE /\ events' = 0 /\ reload' = NoReload
        /\ pc' = [w \in Writers |-> "idle"] /\ op' = [w \in Writers |-> NoOp]
        /\ next' = [w \in Writers |-> Empty]
        /\ UNCHANGED <<synced, editing, edits, mem, stale>>
    BY <1>2 DEF Crash
  <2>2. faults' \in 0 .. MaxFaults /\ faults' > 0 /\ faults' # 0
    BY <1>1, <2>1, BoundsAssumption DEF TypeOK
  <2>3. TypeOK'
    <3>1. reload' \in [at : {"idle", "read", "install"}, read : Contents \cup {Empty}]
      BY <2>1 DEF NoReload
    <3>2. op' \in [Writers -> Calls] /\ next' \in [Writers -> Contents \cup {Empty}]
      BY <2>1 DEF Calls
    <3>3. pc' \in [Writers -> {"idle", "lock", "write", "sync", "cool"}]
      BY <2>1
    <3> QED
      BY <1>1, <2>1, <2>2, <3>1, <3>2, <3>3 DEF TypeOK
  <2>4. \A v \in Writers : pc'[v] = "idle"
    BY <2>1
  <2>5. Critical' /\ Staged' /\ Rests'
    BY <2>1, <2>2, <2>4, NobodyAssumption DEF Critical, Staged, Rests
  <2>6. ReadWhole' /\ Durable' /\ MemoryMatchesFile' /\ Edited'
    BY <2>1, <2>2 DEF FInv, ReadWhole, Durable, MemoryMatchesFile, NoReload, Edited
  <2>7. FileWhole'
    BY <1>1, <2>1, EmptyAssumption DEF FInv, FileSound, FileWhole, TypeOK
  <2> QED
    BY <2>3, <2>5, <2>6, <2>7 DEF FInv, FileSound
<1>3. CASE StartupCheck
  <2>1. /\ ~up /\ file # Empty /\ up' = TRUE /\ mem' = file
        /\ UNCHANGED <<file, synced, editing, edits, mutex, faults, stale>>
        /\ UNCHANGED <<pmutex, cooldown, events, reload>> /\ UNCHANGED <<pc, op, next>>
    BY <1>3 DEF StartupCheck, disk, watcher, writer
  <2>2. TypeOK'
    BY <1>1, <2>1 DEF TypeOK
  <2>3. faults # 0 /\ \A v \in Writers : pc[v] = "idle"
    BY SMTT(30), <1>1, <2>1 DEF FInv, Rests, TypeOK
  <2>4. Critical' /\ Staged' /\ Rests'
    BY SMTT(30), <2>1, <2>3 DEF FInv, Critical, Staged, Rests
  <2>5. ReadWhole' /\ Durable' /\ MemoryMatchesFile' /\ Edited' /\ FileWhole'
    BY <2>1, <2>3 DEF FInv, FileSound, ReadWhole, Durable, MemoryMatchesFile, Edited, FileWhole
  <2> QED
    BY <2>2, <2>4, <2>5 DEF FInv, FileSound
<1> QED
  BY <1>2, <1>3

\* A server that has just started keeps the invariant.
LEMMA InitInv == Init => FInv
<1> SUFFICES ASSUME Init PROVE FInv
  OBVIOUS
<1>1. TypeOK
  <2>1. reload \in [at : {"idle", "read", "install"}, read : Contents \cup {Empty}]
    BY DEF Init, NoReload
  <2>2. op \in [Writers -> Calls]
    BY Zenon DEF Init, Calls
  <2>3. events \in Nat /\ edits \in 0 .. MaxEdits /\ faults \in 0 .. MaxFaults
    BY BoundsAssumption DEF Init
  <2>4. /\ cooldown \in BOOLEAN /\ up \in BOOLEAN
        /\ editing \in BOOLEAN /\ stale \in BOOLEAN
    BY DEF Init
  <2>5. /\ file \in Contents \cup {Empty} /\ synced \in Contents /\ mem \in Contents
        /\ mutex \in Writers \cup {Nobody} /\ pmutex \in {"watcher", Nobody}
    BY DEF Init
  <2>6. /\ pc \in [Writers -> {"idle", "lock", "write", "sync", "cool"}]
        /\ next \in [Writers -> Contents \cup {Empty}]
    BY DEF Init
  <2> QED
    BY <2>1, <2>2, <2>3, <2>4, <2>5, <2>6 DEF TypeOK
<1>2. Critical /\ Rests /\ Staged
  BY NobodyAssumption DEF Init, Critical, Rests, Staged
<1>3. ReadWhole /\ Edited /\ Durable /\ FileWhole /\ MemoryMatchesFile
  BY EmptyAssumption DEF Init, ReadWhole, Edited, Durable, FileWhole, MemoryMatchesFile, NoReload
<1> QED
  BY <1>1, <1>2, <1>3 DEF FInv, FileSound

\* The operations of FileUserProvider are requests for a change.
LEMMA OperationInv ==
    ASSUME FInv, NEW w \in Writers, NEW u \in Users,
           \/ \E account \in Accounts : CreateUser(w, u, account)
           \/ \E status \in Statuses : AdminUpdateUser(w, u, status)
           \/ AdminDeleteUser(w, u)
           \/ \E p \in Passwords : \/ AdminResetUserPassword(w, u, p)
                                   \/ UpdatePassword(w, u, p)
                                   \/ ChangePassword(w, u, p)
    PROVE  FInv'
<1>1. \E kind \in Kinds : \E arg \in Arguments(kind) : Request(w, kind, u, arg)
  <2>1. CASE \E account \in Accounts : CreateUser(w, u, account)
    BY <2>1 DEF CreateUser, Kinds, Arguments
  <2>2. CASE \E status \in Statuses : AdminUpdateUser(w, u, status)
    BY <2>2 DEF AdminUpdateUser, Kinds, Arguments
  <2>3. CASE AdminDeleteUser(w, u)
    BY <2>3 DEF AdminDeleteUser, Kinds, Arguments
  <2>4. CASE \E p \in Passwords : \/ AdminResetUserPassword(w, u, p)
                                  \/ UpdatePassword(w, u, p)
                                  \/ ChangePassword(w, u, p)
    BY <2>4 DEF AdminResetUserPassword, UpdatePassword, ChangePassword, Kinds, Arguments
  <2> QED
    BY <2>1, <2>2, <2>3, <2>4
<1> QED
  BY <1>1, RequestInv

\* Every step of a call keeps the invariant.
LEMMA ProgressInv ==
    ASSUME FInv, NEW w \in Writers, Progress(w)
    PROVE  FInv'
<1>1. CASE CreateUserDetails(w) \/ DeleteUserDetails(w) \/ UpdateUserDetails(w)
  BY <1>1, ChangeInv
<1>2. CASE Rename(w)
  BY <1>2, RenameInv
<1>3. CASE WriteFails(w) \/ SyncFails(w)
  BY <1>3, FailsInv
<1>4. CASE Install(w)
  BY <1>4, InstallInv
<1>5. CASE SetTimeoutReload(w)
  <2>1. /\ up /\ pc[w] \notin {"write", "sync"} /\ Return(w) /\ cooldown' \in BOOLEAN
        /\ UNCHANGED <<file, synced, editing, edits, mem, mutex, up, faults, stale>>
        /\ UNCHANGED <<pmutex, events, reload>>
    BY <1>5 DEF SetTimeoutReload, disk
  <2> QED
    BY <2>1, ReturnInv
<1> QED
  BY <1>1, <1>2, <1>3, <1>4, <1>5 DEF Progress

\* Every step keeps the invariant.
LEMMA StepInv ==
    ASSUME FInv, [Next]_vars
    PROVE  FInv'
<1>1. ASSUME NEW w \in Writers, NEW u \in Users,
             \/ \E account \in Accounts : CreateUser(w, u, account)
             \/ \E status \in Statuses : AdminUpdateUser(w, u, status)
             \/ AdminDeleteUser(w, u)
             \/ \E p \in Passwords : \/ AdminResetUserPassword(w, u, p)
                                     \/ UpdatePassword(w, u, p)
                                     \/ ChangePassword(w, u, p)
      PROVE  FInv'
  BY <1>1, OperationInv
<1>2. ASSUME NEW w \in Writers, Progress(w) PROVE FInv'
  BY <1>2, ProgressInv
<1>3. CASE Watching
  BY <1>3, WatchingInv
<1>4. CASE CooldownEnds \/ UNCHANGED vars
  <2>1. /\ UNCHANGED <<file, synced, editing, edits, mem, mutex, up, faults, stale>>
        /\ UNCHANGED <<pmutex, events, reload>> /\ UNCHANGED <<pc, op, next>>
        /\ (cooldown' = FALSE \/ cooldown' = cooldown)
    BY <1>4 DEF CooldownEnds, vars, disk, watcher, writer
  <2>2. TypeOK' /\ ReadWhole'
    <3>1. cooldown' \in BOOLEAN
      BY <2>1 DEF FInv, FileSound, TypeOK
    <3>2. TypeOK'
      BY <2>1, <3>1 DEF FInv, FileSound, TypeOK
    <3>3. ReadWhole'
      BY <2>1 DEF FInv, ReadWhole
    <3> QED BY <3>2, <3>3
  <2>3. ~up => \A w \in Writers : pc'[w] = "idle"
    BY <2>1 DEF FInv, Rests
  <2> QED
    BY <2>1, <2>2, <2>3, Undisturbed
<1>5. CASE EditTruncate \/ \E c \in Contents : EditWrite(c)
  BY <1>5, EditInv
<1>6. CASE Crash \/ StartupCheck
  BY <1>6, RestartInv
<1> QED
  BY Zenon, <1>1, <1>2, <1>3, <1>4, <1>5, <1>6 DEF Next

\* The file is never left without content by the program, whatever step a change is
\* at and whenever the process stops, and agrees with the map but for the change
\* that is being written.
THEOREM FilesSound == Spec => []FileSound
<1>1. FInv /\ [Next]_vars => FInv'
  BY StepInv
<1>2. FInv => FileSound
  BY DEF FInv
<1> QED
  BY InitInv, <1>1, <1>2, PTL DEF Spec

\* What becomes of the map when a change is installed.
LEMMA InstalledChange ==
    ASSUME FInv, NEW w \in Writers, Install(w)
    PROVE  /\ op[w].kind \in Kinds /\ op[w].user \in Users /\ Accepted(op[w])
           /\ mem \in [Users -> Accounts \cup {NoAccount}]
           /\ mem' = [mem EXCEPT ![op[w].user] = Entry(op[w])]
<1>1. pc[w] = "sync" /\ mem' = next[w] /\ TypeOK
  BY DEF Install, FInv, FileSound
<1>2. /\ op[w].kind \in Kinds /\ Accepted(op[w])
      /\ next[w] = [mem EXCEPT ![op[w].user] = Entry(op[w])]
  BY <1>1 DEF FInv, Staged
<1>3. op[w].user \in Users
  BY <1>1, <1>2, CallType
<1> QED
  BY <1>1, <1>2, <1>3 DEF TypeOK, Contents

\* Changes of passwords keep the status of every account.
LEMMA StatusKept == ASSUME FInv PROVE PasswordKeepsStatus
<1> SUFFICES ASSUME NEW w \in Writers, NEW u \in Users, Install(w), mem[u] # NoAccount,
                    op[w].kind \in {"ChangePassword", "UpdatePassword", "AdminResetUserPassword"}
             PROVE  mem'[u] # NoAccount /\ mem'[u].status = mem[u].status
  BY DEF PasswordKeepsStatus
<1>1. /\ mem \in [Users -> Accounts \cup {NoAccount}]
      /\ mem' = [mem EXCEPT ![op[w].user] = Entry(op[w])] /\ TypeOK
  BY InstalledChange DEF FInv, FileSound
<1>2. op[w].arg \in Passwords
  BY <1>1, InstalledChange, CallType
<1>3. ASSUME u = op[w].user
      PROVE  mem'[u] # NoAccount /\ mem'[u].status = mem[u].status
  <2>1. mem[u] \in Accounts /\ mem'[u] = Entry(op[w])
    BY <1>1, <1>3
  <2>2. Entry(op[w]) = [mem[u] EXCEPT !.pw = op[w].arg]
    BY <1>3 DEF Entry, Updated
  <2>3. [mem[u] EXCEPT !.pw = op[w].arg] \in Accounts
    BY <2>1, <1>2 DEF Accounts
  <2>4. [mem[u] EXCEPT !.pw = op[w].arg].status = mem[u].status
    BY <2>1 DEF Accounts
  <2> QED
    BY <2>1, <2>2, <2>3, <2>4, NoAccountAssumption
<1>4. u # op[w].user => mem'[u] = mem[u]
  BY <1>1
<1> QED
  BY <1>3, <1>4

\* What no step does to the accounts: the map takes nothing that was not on disk, a
\* power failure loses no acknowledged change, no password change brings back a
\* disabled account, and no creation overwrites an account.
THEOREM AccountsAlwaysSafe == Spec => AccountsSafe
<1>1. ASSUME FInv, [Next]_vars
      PROVE  [/\ MemoryFromDisk /\ CrashKeepsAcknowledged
              /\ PasswordKeepsStatus /\ CreateOverwritesNothing]_vars
  <2>1. \/ UNCHANGED vars
        \/ mem' = mem /\ up' = up
        \/ Crash
        \/ \E w \in Writers : Install(w)
        \/ LoadInstall
        \/ StartupCheck
    <3>1. ASSUME NEW w \in Writers, NEW u \in Users,
                 \/ \E account \in Accounts : CreateUser(w, u, account)
                 \/ \E status \in Statuses : AdminUpdateUser(w, u, status)
                 \/ AdminDeleteUser(w, u)
                 \/ \E q \in Passwords : \/ AdminResetUserPassword(w, u, q)
                                        \/ UpdatePassword(w, u, q)
                                        \/ ChangePassword(w, u, q)
          PROVE  mem' = mem /\ up' = up
      BY <3>1 DEF CreateUser, AdminUpdateUser, AdminDeleteUser, AdminResetUserPassword,
                  UpdatePassword, ChangePassword, Request
    <3>2. ASSUME NEW w \in Writers, Progress(w), ~Install(w)
          PROVE  mem' = mem /\ up' = up
      <4>1. CASE CreateUserDetails(w) \/ DeleteUserDetails(w) \/ UpdateUserDetails(w)
        BY ZenonT(30), <4>1 DEF Change, CreateUserDetails, DeleteUserDetails, UpdateUserDetails
      <4>2. CASE Rename(w) \/ WriteFails(w) \/ SyncFails(w) \/ SetTimeoutReload(w)
        BY <4>2 DEF Rename, WriteFails, SyncFails, SetTimeoutReload
      <4> QED BY SMTT(30), <3>2, <4>1, <4>2 DEF Progress
    <3>3. HandleEvent \/ LoadRead \/ CooldownEnds => mem' = mem /\ up' = up
      BY DEF HandleEvent, LoadRead, CooldownEnds
    <3>4. (EditTruncate \/ \E c \in Contents : EditWrite(c)) => mem' = mem /\ up' = up
      BY DEF EditTruncate, EditWrite
    <3> QED BY SMTT(30), <1>1, <3>1, <3>2, <3>3, <3>4 DEF Next, Watching
  <2>2. MemoryFromDisk \/ UNCHANGED vars
    <3>1. reload.at = "install" => reload.read # Empty
      BY <1>1 DEF FInv, ReadWhole
    <3> QED
      BY <2>1, <3>1 DEF MemoryFromDisk, Crash, Install, LoadInstall, StartupCheck
  <2>3. CrashKeepsAcknowledged \/ UNCHANGED vars
    <3>1. ASSUME up, ~up', edits = 0, faults = 0, ~stale, ~UNCHANGED vars
          PROVE  \/ file' = mem
                 \/ \E w \in Writers : pc[w] = "sync" /\ file' = next[w]
      <4>1. file' \in {file, synced}
        BY <2>1, <3>1 DEF Crash, Install, LoadInstall, StartupCheck
      <4>2. synced = mem
        BY <1>1, <3>1 DEF FInv, Durable
      <4>3. \/ mem = file
            \/ \E w \in Writers : pc[w] = "sync" /\ file = next[w]
        BY <1>1, <3>1 DEF FInv, FileSound, MemoryMatchesFile
      <4> QED
        BY <4>1, <4>2, <4>3
    <3> QED
      BY <3>1 DEF CrashKeepsAcknowledged
  <2>4. PasswordKeepsStatus
    BY <1>1, StatusKept
  <2>5. CreateOverwritesNothing
    BY <1>1, InstalledChange DEF CreateOverwritesNothing, Accepted
  <2> QED
    BY <2>2, <2>3, <2>4, <2>5
<1>2. FInv /\ [Next]_vars => FInv'
  BY StepInv
<1> QED
  BY InitInv, <1>1, <1>2, PTL DEF Spec, AccountsSafe

=============================================================================
