--------------------------- MODULE StorageSchema ---------------------------
(***************************************************************************)
(* The SQL storage provider's schema: the start-up check, migrations up    *)
(* and down, the re-encryption that schema versions 25 and 26 carry, the   *)
(* change of the storage encryption key, and the HMAC key the instances    *)
(* share (internal/storage/sql_provider_schema*.go, *_encryption.go).      *)
(*                                                                         *)
(* Processes are server instances starting up and administrators running   *)
(* `authelia storage` commands.  PostgreSQL and SQLite migrate inside one  *)
(* transaction (Transactional): the process works on a private copy that   *)
(* becomes the database when it commits.  MySQL cannot roll DDL back, so   *)
(* every statement takes effect at once and a failed migration is undone   *)
(* by migrating the other way.                                             *)
(*                                                                         *)
(* All users' encrypted rows are re-encrypted in one transaction, so one   *)
(* scheme (raw key, key derivation, additional authenticated data) stands  *)
(* for all of them, and another for the rows of the encryption table: the  *)
(* check value and the HMAC keys.  `damaged` says that a user's row cannot *)
(* be decrypted.                                                           *)
(***************************************************************************)
EXTENDS Integers, Sequences, FiniteSets

CONSTANTS Procs,          \* processes with a connection to the database
          NoProc,         \* nobody
          Keys,           \* raw storage encryption keys
          NoKey,          \* no HMAC key stored / held
          Rotated,        \* the HMAC key a rotation generates
          KeyDerivation,  \* schemaVersionEncryptionKeyDerivation
          RowScoped,      \* schemaVersionEncryptionAADRowScoped
          Latest,         \* the highest migration the binary ships
          Transactional,  \* TRUE: PostgreSQL, SQLite; FALSE: MySQL
          AdminAlone,     \* administrators stop the servers first
          MaxFaults,      \* crashes and failing statements
          MaxCommands     \* administrator commands

ASSUME SchemaAssumption ==
  /\ KeyDerivation \in Nat /\ RowScoped \in Nat /\ Latest \in Nat
  /\ 1 < KeyDerivation /\ KeyDerivation < RowScoped /\ RowScoped <= Latest
  /\ Transactional \in BOOLEAN /\ AdminAlone \in BOOLEAN
  /\ MaxFaults \in Nat /\ MaxCommands \in Nat
  /\ {NoKey, Rotated, NoProc} \cap Procs = {}

VARIABLES db,        \* the committed database
          work,      \* per process: the transaction's view of the database
          lock,      \* the process holding the migrations table, or NoProc
          proc,      \* per process: where it is and what it holds in memory
          config,    \* the storage encryption key in the configuration
          faults,    \* crashes and failures so far
          commands   \* administrator commands so far

vars == <<db, work, lock, proc, config, faults, commands>>

\* "To the latest version"; any number above Latest + 1 does.
SchemaLatest == Latest + 2
Versions == 1 .. Latest
NoRecord == -2

(***************************************************************************)
(* Encryption schemes.                                                     *)
(***************************************************************************)
aadForSchemaVersion(v) ==
  IF v < KeyDerivation THEN "none" ELSE IF v < RowScoped THEN "column" ELSE "row"

Legacy(k) == [raw |-> k, kdf |-> "legacy"]
Derived(k) == [raw |-> k, kdf |-> "hkdf"]

\* The key a database at version v is encrypted with.
KeyForSchemaVersion(v, k) == IF v < KeyDerivation THEN Legacy(k) ELSE Derived(k)

Sealed(key, aad) == [key |-> key, aad |-> aad]

(***************************************************************************)
(* The database: the migrations whose DDL is applied, the version_after of *)
(* the newest row of the migrations table, the scheme of the check value   *)
(* and of the users' rows (NoRows: there are none), whether one of those   *)
(* cannot be decrypted, and the HMAC key.                                  *)
(***************************************************************************)
NoRows == Sealed(Legacy(NoKey), "none")
EmptyDB == [applied |-> {}, recorded |-> NoRecord, check |-> NoRows, enc |-> NoRows,
            damaged |-> FALSE, hmac |-> NoKey]

\* The tables of version 1 include the migrations table; without a row in it
\* the latest migration cannot be loaded, which is an error.
SchemaVersion(d) == IF 1 \in d.applied THEN d.recorded ELSE 0

checkEncryptionCheckValue(d, key, version) ==
  d.check = Sealed(KeyForSchemaVersion(version, key.raw), aadForSchemaVersion(version))

(***************************************************************************)
(* Migrations.                                                             *)
(***************************************************************************)
Up(from, to) == from < to
Before(v, up) == IF up THEN v - 1 ELSE v
After(v, up) == IF up THEN v ELSE v - 1

loadMigrations(prior, target) ==
  IF Up(prior, target)
  THEN [i \in 1 .. (IF target > Latest THEN Latest ELSE target) - prior |-> prior + i]
  ELSE [i \in 1 .. prior - target |-> prior - i + 1]

schemaMigrateChecks(up, target, current) ==
  IF \/ target = current
     \/ up /\ (target < current \/ (target # SchemaLatest /\ target > Latest))
     \/ ~up /\ target > current
  THEN "refused"
  ELSE IF up /\ target = SchemaLatest /\ current = Latest THEN "current" ELSE "ok"

\* The files of the two encryption migrations are empty.
NotEmpty(v) == v \notin {KeyDerivation, RowScoped}

\* What a migration's SQL does (external: the database): the first one
\* creates its tables if they do not exist and drops them if they do, the
\* others alter tables and fail when that was done already, or not yet.
QueryFits(d, v, up) == ~NotEmpty(v) \/ v = 1 \/ ((v \in d.applied) # up)
Query(d, v, up) ==
  IF up THEN [d EXCEPT !.applied = @ \cup {v}]
  ELSE IF v = 1 THEN EmptyDB ELSE [d EXCEPT !.applied = @ \ {v}]

\* SchemaEncryptionChangeKeyAdvanced: every value must open with (key, from);
\* a fresh schema's check value is opened as (key, to).
RowsOpen(d, key, from) == ~d.damaged /\ d.enc \in {NoRows, Sealed(key, from)}
ValuesOpen(d, key, init, from, to) == d.check = Sealed(key, IF init THEN to ELSE from)

ChangeKeyUnchecked(d, key, init, from, to) == ~d.damaged
ChangeKeyFits(d, key, init, from, to) == RowsOpen(d, key, from) /\ ValuesOpen(d, key, init, from, to)
ChangeKeyAdvanced(d, new, to) ==
  [d EXCEPT !.check = Sealed(new, to), !.enc = IF @ = NoRows THEN NoRows ELSE Sealed(new, to)]

\* The re-encryption of version 24 and 25 is left to version 26 when the
\* migration goes on; each special migration says whether it re-encrypts, the
\* key it decrypts with, the key and AAD it encrypts with, and the key the
\* provider is left with.
NoSpecial(key) ==
  [runs |-> FALSE, old |-> key, from |-> "none", new |-> key, to |-> "none", init |-> FALSE, left |-> key]

migrationSpecialUp25(key, prior, target) ==
  IF target > KeyDerivation THEN NoSpecial(key)
  ELSE [runs |-> TRUE, old |-> IF prior # 0 THEN Legacy(key.raw) ELSE key, from |-> "none",
        new |-> key, to |-> "column", init |-> prior = 0, left |-> key]

SpecialUp26Columns(key, prior, target) ==
  [runs |-> TRUE, old |-> key, from |-> IF prior = 0 THEN "row" ELSE "column",
   new |-> key, to |-> "row", init |-> prior = 0, left |-> key]
migrationSpecialUp26(key, prior, target) ==
  [runs |-> TRUE,
   old |-> IF prior # 0 /\ prior < KeyDerivation THEN Legacy(key.raw) ELSE key,
   from |-> IF prior = 0 THEN "row" ELSE IF prior < KeyDerivation THEN "none" ELSE "column",
   new |-> key, to |-> "row", init |-> prior = 0, left |-> key]

migrationSpecialDown25(key, prior, target) ==
  IF prior >= RowScoped THEN NoSpecial(key)
  ELSE [runs |-> target # 0, old |-> key, from |-> "column", new |-> Legacy(key.raw), to |-> "none",
        init |-> FALSE, left |-> Legacy(key.raw)]

migrationSpecialDown26(key, prior, target) ==
  LET new == IF target < KeyDerivation THEN Legacy(key.raw) ELSE key
  IN [runs |-> target # 0, old |-> key, from |-> "row", new |-> new,
      to |-> IF target < KeyDerivation THEN "none" ELSE "column", init |-> FALSE,
      left |-> new]

schemaMigrateApplySpecial(v, up, key, prior, target) ==
  CASE v = KeyDerivation /\ up -> migrationSpecialUp25(key, prior, target)
    [] v = RowScoped /\ up -> migrationSpecialUp26(key, prior, target)
    [] v = KeyDerivation /\ ~up -> migrationSpecialDown25(key, prior, target)
    [] v = RowScoped /\ ~up -> migrationSpecialDown26(key, prior, target)
    [] OTHER -> NoSpecial(key)

(***************************************************************************)
(* Processes.  `origin` is history: the database a migration without a     *)
(* transaction started from.                                               *)
(***************************************************************************)
Stopped == [pc |-> "stopped", startup |-> FALSE, key |-> Derived(NoKey), up |-> TRUE, prior |-> 0,
            target |-> 0, todo |-> << >>, rollback |-> FALSE, hmac |-> NoKey, origin |-> EmptyDB]

Active(p) == proc[p].pc \notin {"stopped", "serving"}
Quiet(p) == \A q \in Procs \ {p} : proc[q].pc = "stopped"

\* The database as p's statements see it, and as they leave it.
View(p) == IF Transactional THEN work[p] ELSE db
Write(p, d) ==
  IF Transactional THEN work' = [work EXCEPT ![p] = d] /\ UNCHANGED db
  ELSE db' = d /\ UNCHANGED work

Become(p, r) == proc' = [proc EXCEPT ![p] = r]
Goto(p, pc) == Become(p, [proc[p] EXCEPT !.pc = pc])

\* The process ends: an open transaction is rolled back and its lock released.
Ends(p) ==
  /\ Become(p, Stopped)
  /\ work' = [work EXCEPT ![p] = EmptyDB]
  /\ lock' = IF lock = p THEN NoProc ELSE lock
  /\ UNCHANGED db

Init ==
  /\ config \in Keys
  /\ \E v \in 0 .. Latest, rows \in {"none", "some", "damaged"} :
       LET scheme == Sealed(KeyForSchemaVersion(v, config), aadForSchemaVersion(v))
       IN db = IF v = 0 THEN EmptyDB
               ELSE [applied |-> 1 .. v, recorded |-> v, check |-> scheme,
                     enc |-> IF rows = "none" THEN NoRows ELSE scheme,
                     damaged |-> rows = "damaged", hmac |-> NoKey]
  /\ work = [p \in Procs |-> EmptyDB]
  /\ lock = NoProc
  /\ proc = [p \in Procs |-> Stopped]
  /\ faults = 0 /\ commands = 0

(***************************************************************************)
(* NewSQLProvider and StartupCheck: the key is derived from the            *)
(* configuration, the check value must open, then the schema is migrated.  *)
(***************************************************************************)
Start(p) ==
  /\ proc[p].pc = "stopped"
  /\ AdminAlone => \A q \in Procs : Active(q) => proc[q].startup
  /\ Become(p, [Stopped EXCEPT !.pc = "check", !.startup = TRUE, !.key = Derived(config),
                               !.target = SchemaLatest])
  /\ UNCHANGED <<db, work, lock, config, faults, commands>>

SchemaEncryptionCheckKey(p) ==
  /\ proc[p].pc = "check"
  /\ LET version == SchemaVersion(db)
     IN IF version = 0 \/ (version # NoRecord /\ checkEncryptionCheckValue(db, proc[p].key, version))
        THEN Goto(p, "version") /\ UNCHANGED <<work, lock, db>>
        ELSE Ends(p)
  /\ UNCHANGED <<config, faults, commands>>

\* `authelia storage migrate up|down`: no check of the key comes first.
StorageMigrate(p) ==
  /\ proc[p].pc = "stopped" /\ commands < MaxCommands
  /\ AdminAlone => Quiet(p)
  /\ \E up \in BOOLEAN, target \in 0 .. SchemaLatest :
       Become(p, [Stopped EXCEPT !.pc = "version", !.key = Derived(config), !.up = up, !.target = target])
  /\ commands' = commands + 1
  /\ UNCHANGED <<db, work, lock, config, faults>>

\* SchemaMigrate reads the version outside of the transaction, and before it
\* waits for the migrations table.
SchemaMigrate(p) ==
  /\ proc[p].pc = "version"
  /\ IF SchemaVersion(db) = NoRecord THEN Ends(p)
     ELSE /\ Become(p, [proc[p] EXCEPT !.pc = "lock", !.prior = SchemaVersion(db)])
          /\ UNCHANGED <<db, work, lock>>
  /\ UNCHANGED <<config, faults, commands>>

schemaMigrateLock(p) ==
  /\ proc[p].pc = "lock"
  /\ Transactional => lock = NoProc
  /\ LET r == proc[p]
         checked == schemaMigrateChecks(r.up, r.target, r.prior)
     IN \/ /\ checked = "ok"
           /\ Become(p, [r EXCEPT !.pc = "query", !.todo = loadMigrations(r.prior, r.target),
                             !.origin = IF Transactional THEN EmptyDB ELSE db])
           /\ lock' = IF Transactional THEN p ELSE lock
           /\ work' = IF Transactional THEN [work EXCEPT ![p] = db] ELSE work
           /\ UNCHANGED db
        \/ checked = "current" /\ r.startup /\ Goto(p, "hmac") /\ UNCHANGED <<db, work, lock>>
        \/ checked # "ok" /\ ~(checked = "current" /\ r.startup) /\ Ends(p)
  /\ UNCHANGED <<config, faults, commands>>

(***************************************************************************)
(* schemaMigrateApply, statement by statement, and what follows a failure. *)
(***************************************************************************)

\* A transaction is rolled back.  Without one the migrations are undone from
\* the version the failed one leads to, back to the version before the
\* migration; a failure of that ends the process where it is.
CommitAnyway(p, key) ==
  /\ db' = View(p) /\ Become(p, Stopped)
  /\ work' = [work EXCEPT ![p] = EmptyDB] /\ lock' = IF lock = p THEN NoProc ELSE lock
schemaMigrateRollback(p, key) ==
  LET r == proc[p]
      after == After(Head(r.todo), r.up)
  IN IF Transactional \/ r.rollback THEN Ends(p)
     ELSE /\ Become(p, [r EXCEPT !.pc = "query", !.rollback = TRUE, !.key = key,
                                 !.up = Up(after, r.prior), !.prior = after, !.target = r.prior,
                                 !.todo = loadMigrations(after, r.prior)])
          /\ UNCHANGED <<db, work, lock>>

\* The error paths of one statement: it fails because it must, or because the
\* database does.
Fault == faults < MaxFaults /\ faults' = faults + 1

ApplyQuery(p) ==
  /\ proc[p].pc = "query"
  /\ LET r == proc[p]
         v == Head(r.todo)
     IN IF QueryFits(View(p), v, r.up)
        THEN /\ Write(p, IF NotEmpty(v) THEN Query(View(p), v, r.up) ELSE View(p))
             /\ Goto(p, IF v = 1 /\ r.up THEN "value" ELSE "special")
             /\ UNCHANGED lock
        ELSE schemaMigrateRollback(p, r.key)
  /\ UNCHANGED <<config, faults, commands>>

\* The first migration stores the encryption check value, in the scheme of
\* the version the migration is going to.
setNewEncryptionCheckValue(p) ==
  /\ proc[p].pc = "value"
  /\ LET r == proc[p]
         key == IF r.target < KeyDerivation THEN Legacy(r.key.raw) ELSE r.key
     IN Write(p, [View(p) EXCEPT !.check = Sealed(key, aadForSchemaVersion(r.target))])
  /\ Goto(p, "special")
  /\ UNCHANGED <<lock, config, faults, commands>>

\* The Go code of versions 25 and 26 (version 24 reads credentials with the
\* legacy scheme and rewrites none of the encrypted columns): on MySQL in a
\* transaction of its own.  When it fails the key it decrypts with stays in
\* the provider.
ApplySpecial(p) ==
  /\ proc[p].pc = "special"
  /\ LET r == proc[p]
         v == Head(r.todo)
         s == schemaMigrateApplySpecial(v, r.up, r.key, r.prior, r.target)
     IN IF ~s.runs \/ ChangeKeyFits(View(p), s.old, s.init, s.from, s.to)
        THEN /\ Write(p, IF s.runs THEN ChangeKeyAdvanced(View(p), s.new, s.to) ELSE View(p))
             /\ Become(p, [r EXCEPT !.pc = "record", !.key = s.left])
             /\ UNCHANGED lock
        ELSE schemaMigrateRollback(p, s.old)
  /\ UNCHANGED <<config, faults, commands>>

\* schemaMigrateFinalize inserts the migration's row, except for the one that
\* dropped the table; then the next migration, or the end of the loop.
schemaMigrateFinalize(p) ==
  /\ proc[p].pc = "record"
  /\ LET r == proc[p]
         v == Head(r.todo)
     IN /\ Write(p, IF v = 1 /\ ~r.up THEN View(p)
                    ELSE [View(p) EXCEPT !.recorded = After(v, r.up)])
        /\ Become(p, [r EXCEPT !.pc = IF Tail(r.todo) = << >> THEN "commit" ELSE "query",
                               !.todo = Tail(@)])
  /\ UNCHANGED <<lock, config, faults, commands>>

\* The statement in progress fails (a lost connection, a full disk).
StatementFails(p) ==
  /\ proc[p].pc \in {"query", "value", "special", "record"}
  /\ Fault
  /\ schemaMigrateRollback(p, proc[p].key)
  /\ UNCHANGED <<config, commands>>

\* The end of SchemaMigrate: the transaction commits; a rolled back migration
\* and an administrator's command end the process.
SchemaMigrateEnds(p) ==
  /\ proc[p].pc = "commit"
  /\ db' = View(p)
  /\ lock' = IF lock = p THEN NoProc ELSE lock
  /\ work' = [work EXCEPT ![p] = EmptyDB]
  /\ IF proc[p].startup /\ ~proc[p].rollback THEN Goto(p, "hmac") ELSE Become(p, Stopped)
  /\ UNCHANGED <<config, faults, commands>>

(***************************************************************************)
(* getHMACKey: in a transaction the key is read, or generated and inserted *)
(* where its name is unique.                                               *)
(***************************************************************************)
CanDecrypt(p) == db.check = Sealed(proc[p].key, "row")

getHMACKey(p) ==
  /\ proc[p].pc = "hmac"
  /\ \/ db.hmac # NoKey /\ CanDecrypt(p)
        /\ Become(p, [proc[p] EXCEPT !.pc = "serving", !.hmac = db.hmac]) /\ UNCHANGED <<db, work, lock>>
     \/ db.hmac # NoKey /\ ~CanDecrypt(p) /\ Ends(p)
     \/ db.hmac = NoKey /\ Goto(p, "insert") /\ UNCHANGED <<db, work, lock>>
  /\ UNCHANGED <<config, faults, commands>>

setCrypographyKey(p) ==
  /\ proc[p].pc = "insert"
  /\ IF db.hmac = NoKey
     THEN /\ db' = [db EXCEPT !.hmac = p]
          /\ Become(p, [proc[p] EXCEPT !.pc = "serving", !.hmac = p])
          /\ UNCHANGED <<work, lock>>
     ELSE Ends(p)
  /\ UNCHANGED <<config, faults, commands>>

(***************************************************************************)
(* `authelia storage encryption change-key` and `rotate`: CheckSchema      *)
(* requires the latest version and a key that opens the check value.       *)
(* Both are one transaction; changing the key is documented to require     *)
(* that the servers are stopped, and the configuration is then updated.    *)
(***************************************************************************)
CheckSchema(key) ==
  SchemaVersion(db) = Latest /\ checkEncryptionCheckValue(db, key, Latest)

SchemaEncryptionChangeKey(k) ==
  /\ k # config
  /\ ChangeKeyFits(db, Derived(config), FALSE, "row", "row")
  /\ db' = ChangeKeyAdvanced(db, Derived(k), "row")

SchemaEncryptionRotateHMACKey == db' = [db EXCEPT !.hmac = Rotated]

StorageEncryptionChangeKey(p) ==
  /\ Quiet(p) /\ proc[p].pc = "stopped" /\ commands < MaxCommands
  /\ CheckSchema(Derived(config))
  /\ \E k \in Keys : SchemaEncryptionChangeKey(k)
  /\ commands' = commands + 1
  /\ UNCHANGED <<work, lock, proc, config, faults>>

StorageEncryptionRotate(p) ==
  /\ Quiet(p) /\ proc[p].pc = "stopped" /\ commands < MaxCommands
  /\ CheckSchema(Derived(config))
  /\ SchemaEncryptionRotateHMACKey
  /\ commands' = commands + 1
  /\ UNCHANGED <<work, lock, proc, config, faults>>

\* A server stores an encrypted value.
Store(p) ==
  /\ proc[p].pc = "serving" /\ db.enc = NoRows
  /\ db' = [db EXCEPT !.enc = Sealed(proc[p].key, "row")]
  /\ UNCHANGED <<work, lock, proc, config, faults, commands>>

\* The administrator writes another key into the configuration: the new one,
\* in time or late, or a wrong one; not while a process is starting.
Configure(k) ==
  /\ config' = k /\ k # config /\ commands < MaxCommands
  /\ \A p \in Procs : ~Active(p)
  /\ commands' = commands + 1
  /\ UNCHANGED <<db, work, lock, proc, faults>>

\* The process is killed, or a server is shut down.
Crash(p) == Active(p) /\ Fault /\ Ends(p) /\ UNCHANGED <<config, commands>>
Shutdown(p) ==
  /\ proc[p].pc = "serving" /\ commands < MaxCommands /\ commands' = commands + 1
  /\ Ends(p) /\ UNCHANGED <<config, faults>>

MigrateStep(p) ==
  \/ SchemaEncryptionCheckKey(p) \/ SchemaMigrate(p) \/ schemaMigrateLock(p)
  \/ ApplyQuery(p) \/ setNewEncryptionCheckValue(p) \/ ApplySpecial(p)
  \/ schemaMigrateFinalize(p) \/ SchemaMigrateEnds(p)
  \/ getHMACKey(p) \/ setCrypographyKey(p)

Next ==
  \/ \E p \in Procs :
       \/ Start(p) \/ MigrateStep(p) \/ Store(p) \/ StatementFails(p) \/ Crash(p) \/ Shutdown(p)
       \/ StorageMigrate(p) \/ StorageEncryptionChangeKey(p) \/ StorageEncryptionRotate(p)
  \/ \E k \in Keys : Configure(k)

Spec == Init /\ [][Next]_vars

\* A supervisor restarts a stopped server and the process runs.
FairSpec == Spec /\ \A p \in Procs : WF_vars(MigrateStep(p)) /\ WF_vars(Start(p))

(***************************************************************************)
(* Properties.                                                             *)
(***************************************************************************)
EncKeys == [raw : Keys \cup {NoKey}, kdf : {"legacy", "hkdf"}]
Schemes == [key : EncKeys, aad : {"none", "column", "row"}]
Databases ==
  [applied : SUBSET Versions, recorded : Versions \cup {NoRecord},
   check : Schemes, enc : Schemes, damaged : BOOLEAN,
   hmac : Procs \cup {NoKey, Rotated}]

\* Types of the databases, the processes and the lock.
TypeOKSchema ==
  /\ db \in Databases
  /\ \A p \in Procs : work[p] \in Databases
  /\ lock \in Procs \cup {NoProc}
  /\ \A p \in Procs :
       /\ proc[p].pc \in {"stopped", "check", "version", "lock", "query", "value", "special",
                          "record", "commit", "hmac", "insert", "serving"}
       /\ proc[p].key \in EncKeys /\ proc[p].prior \in 0 .. Latest
       /\ proc[p].target \in 0 .. SchemaLatest
       /\ \A i \in DOMAIN proc[p].todo : proc[p].todo[i] \in Versions
  /\ config \in Keys /\ faults \in 0 .. MaxFaults /\ commands \in 0 .. MaxCommands

SchemeOf(d, v) ==
  /\ d.check = Sealed(KeyForSchemaVersion(v, d.check.key.raw), aadForSchemaVersion(v))
  /\ d.enc \in {NoRows, d.check}

\* Whatever migrations ran, in whatever order, raced or failed, the stored
\* values are in the scheme of the version the database records, so that the
\* next start-up opens them (aadForSchemaVersion's contract).
Readable == SchemaVersion(db) > 0 => SchemeOf(db, SchemaVersion(db))

\* Migrations whose effect on the tables contradicts the recorded version.
OutOfStep(d) ==
  {v \in Versions : NotEmpty(v) /\ ((v \in d.applied) # (v <= SchemaVersion(d)))}

\* The migrations table tells the truth: the migrations applied to the tables
\* are exactly those up to the recorded version, which is the version a
\* migration "should be at" before it is applied (SchemaMigration.Before).
SchemaMatchesRecord == SchemaVersion(db) # NoRecord => OutOfStep(db) = {}

\* A server that finished its start-up holds the key and uses the scheme the
\* database is in: the swaps of provider.keys.encryption during special
\* migrations leave no trace.
ServingCanDecrypt ==
  \A p \in Procs :
    proc[p].pc = "serving" => CanDecrypt(p) /\ db.enc \in {NoRows, Sealed(proc[p].key, "row")}

\* Servers that start at the same time agree on the HMAC key, the stored one.
OneHMACKey == \A p \in Procs : proc[p].pc = "serving" => proc[p].hmac = db.hmac

\* What "migration rollback complete" should mean of process p: the version is
\* the one from before the failed migration, and so are the tables and the
\* encryption, unless an earlier interruption had left them out of step with
\* the version and they are in step now.
Restored(p) ==
  LET old == proc[p].origin
  IN /\ SchemaVersion(db) = SchemaVersion(old)
     /\ OutOfStep(db) \subseteq OutOfStep(old)
     /\ (db.check = old.check /\ db.enc = old.enc) \/ Readable

UndoComplete(p) == proc[p].pc = "commit" /\ proc[p].rollback

\* Without a transaction, an upgrade whose undoing reports that it is complete
\* (schemaMigrateRollbackWithoutTx) has left everything as it was.
UpgradeUndone == \A p \in Procs : UndoComplete(p) /\ ~proc[p].up => Restored(p)

(***************************************************************************)
(* What the commands that only read report, run with the configured key    *)
(* while nothing migrates.                                                 *)
(***************************************************************************)
\* schemaEncryptionCheckKey...: every table's rows open with the provider's
\* key, in the scheme of the version.
TablesValid(key, version) ==
  ~db.damaged /\ db.enc \in {NoRows, Sealed(key, aadForSchemaVersion(version))}

\* `storage encryption check [--verbose]`, after CheckSchemaVersion.
StorageEncryptionCheck(key, verbose) ==
  CASE SchemaVersion(db) # Latest -> "error"
    [] SchemaVersion(db) = Latest /\ checkEncryptionCheckValue(db, key, Latest)
         /\ (verbose => TablesValid(key, Latest)) -> "SUCCESS"
    [] OTHER -> "FAILURE"

\* `storage schema-info`: the key as far as the check value tells.
StorageSchemaInfo(key) ==
  CASE SchemaVersion(db) = 0 -> "unsupported"
    [] SchemaVersion(db) > 0 /\ checkEncryptionCheckValue(db, key, SchemaVersion(db)) -> "valid"
    [] OTHER -> "invalid"

\* `storage migrate list-up` and `list-down`.
StorageMigrateList(up) ==
  LET current == SchemaVersion(db)
  IN IF current = NoRecord \/ (~up /\ current = 0) THEN << >>
     ELSE loadMigrations(current, IF up THEN SchemaLatest ELSE 0)

\* Administrators act on these reports.  A key that is reported valid opens
\* every row that is not damaged; a verbose success means that a change of the
\* key succeeds, and only that does; an upgrade is listed exactly when there is
\* one; and the listed migrations are those that are, or are not, applied.
ReportsHonest ==
  LET key == Derived(config)
      version == SchemaVersion(db)
  IN (\A p \in Procs : ~Active(p)) =>
       /\ StorageSchemaInfo(key) = "valid" /\ ~db.damaged =>
            RowsOpen(db, KeyForSchemaVersion(version, config), aadForSchemaVersion(version))
       /\ StorageEncryptionCheck(key, TRUE) = "SUCCESS" <=>
            CheckSchema(key) /\ ChangeKeyFits(db, key, FALSE, "row", "row")
       /\ version # NoRecord =>
            /\ StorageMigrateList(TRUE) = << >> <=> version = Latest
            /\ \A v \in Versions : NotEmpty(v) =>
                 /\ (v \in db.applied) <=> (\E i \in DOMAIN StorageMigrateList(FALSE) :
                                             StorageMigrateList(FALSE)[i] = v)
                 /\ (v \notin db.applied) <=> (\E i \in DOMAIN StorageMigrateList(TRUE) :
                                                StorageMigrateList(TRUE)[i] = v)

\* The configured key opens the database and no row is damaged.
Openable ==
  \/ SchemaVersion(db) = 0
  \/ db.check.key.raw = config /\ ~db.damaged
=============================================================================
