------------------------------ MODULE MCStartup ------------------------------
(***************************************************************************)
(* Starting and stopping the process: the schema migrations of a start-up  *)
(* on a database with transactional statements (two processes) and on      *)
(* MySQL (one), the life of the services around it, and what an            *)
(* administrator's storage commands do beside it.                          *)
(*                                                                         *)
(* Version 1 stands for every version of the legacy scheme, 2 for schema   *)
(* 24, 3 and 4 for 25 and 26, 5 for those after.                           *)
(***************************************************************************)
EXTENDS StorageSchema, TLC

CONSTANTS p1, p2, u3, k1, k2, k3, None, Corrupt,
          MySQLFaults, MySQLCommands, Hups

VARIABLES part,   \* which of the five is running
          settings, main, failed, nextP, svc, down, signalled, cancelled, provider,
          request, late, collecting, writable, log, hup, hups,
          table, engine, rows, file, cmd, result, stayed, met, shifted, writes,
          policy, now, pub, cache, server, admin, crossed

MCKeyDerivation == 3
MCRowScoped == 4
MCLatest == 5

MySQL == INSTANCE StorageSchema WITH
           Transactional <- FALSE, Procs <- {p1}, MaxFaults <- MySQLFaults, MaxCommands <- MySQLCommands

Service == INSTANCE ServiceLifecycle WITH
             config <- settings, Requests <- {p1, p2}, Prompt <- TRUE, MaxHups <- Hups

\* Three rows on pages of two, and two requests of the portal meanwhile, or one
\* where it may put a row anywhere.
Command == INSTANCE StorageCommands WITH
             Users <- {p1, p2, u3}, Kids <- {k1, k2, k3}, Values <- {1, 2},
             Limit <- 2, MaxRows <- 3, MaxWrites <- 2

Metadata == INSTANCE MetadataCache WITH
              NoBlob <- None, MaxNow <- 4, MaxBlob <- 3

schemaVars == <<db, work, lock, proc, config, faults, commands>>
serviceVars == <<settings, main, failed, nextP, svc, down, signalled, cancelled, provider,
                 request, late, collecting, writable, log, hup, hups>>

cmdVars == <<table, engine, rows, file, cmd, result, stayed, met, shifted, writes>>
mdsVars == <<policy, now, pub, cache, server, admin, crossed>>

ASSUME MySQLAssumption == MySQL!SchemaAssumption
ASSUME ServiceAssumption == Service!HupsAssumption /\ Service!PromptAssumption
ASSUME CommandAssumption == Command!PagingAssumption /\ Metadata!MetadataAssumption

NoSchema ==
  /\ db = None /\ work = None /\ lock = None /\ proc = None
  /\ config = None /\ faults = 0 /\ commands = 0

NoService ==
  /\ settings = None /\ main = None /\ failed = {} /\ nextP = 1 /\ svc = None /\ down = None
  /\ signalled = FALSE /\ cancelled = FALSE /\ provider = None /\ request = {} /\ late = FALSE
  /\ collecting = FALSE /\ writable = TRUE /\ log = None /\ hup = FALSE /\ hups = 0

NoCommands ==
  /\ table = None /\ engine = None /\ rows = <<>> /\ file = None /\ cmd = None /\ result = None
  /\ stayed = {} /\ met = {} /\ shifted = FALSE /\ writes = 0

NoMetadata ==
  /\ policy = None /\ now = 0 /\ pub = 1 /\ cache = None /\ server = None /\ admin = None
  /\ crossed = FALSE

\* A file to import meets a table of at most one row; credentials belong to two
\* users, the rows of the other tables to one.
InitCommand ==
  /\ Command!InitCommands
  /\ file # None => table \in {"totp", "webauthn"} /\ Len(rows) <= 1 /\ engine = "rowid"
  /\ file # None => \A i \in DOMAIN file : file[i].user # u3
  /\ \A i \in DOMAIN rows : /\ table = "totp" => rows[i].val = 1
                            /\ table = "webauthn" => rows[i].user # u3
                            /\ table \in {"bans", "identifiers"} => rows[i].user = u3

MCInit ==
  \/ part = "sql" /\ Init /\ NoService /\ NoCommands /\ NoMetadata
  \/ part = "mysql" /\ MySQL!Init /\ NoService /\ NoCommands /\ NoMetadata
  \/ part = "service" /\ Service!Init /\ NoSchema /\ NoCommands /\ NoMetadata
  \/ part = "command" /\ NoSchema /\ NoService /\ InitCommand /\ NoMetadata
  \/ part = "metadata" /\ NoSchema /\ NoService /\ NoCommands /\ Metadata!InitMetadata

\* The log file is reopened, and fails to, where no other optional service
\* runs; two requests overlap where the log file is left alone.
MCNext ==
  \/ part = "sql" /\ Next /\ UNCHANGED <<part, serviceVars, cmdVars, mdsVars>>
  \/ part = "mysql" /\ MySQL!Next /\ UNCHANGED <<part, serviceVars, cmdVars, mdsVars>>
  \/ part = "service" /\ Service!Next /\ UNCHANGED <<part, schemaVars, cmdVars, mdsVars>>
     /\ ((hup' \/ ~writable') => settings.optional \subseteq {"signal"} /\ request' # {p1, p2})
  \/ part = "command" /\ Command!NextCommands /\ UNCHANGED <<part, schemaVars, serviceVars, mdsVars>>
     /\ (engine = "heap" => writes' <= 1)
     /\ (table = "webauthn" => \A i \in DOMAIN rows' : rows'[i].user # u3)
  \/ part = "metadata" /\ Metadata!NextMetadata
     /\ UNCHANGED <<part, schemaVars, serviceVars, cmdVars>>

MCSpec == MCInit /\ [][MCNext]_<<part, schemaVars, serviceVars, cmdVars, mdsVars>>

Symmetry == Permutations(Procs) \cup Permutations(Keys)

-----------------------------------------------------------------------------
\* A server that finished its start-up holds the key and uses the scheme the
\* database is in, on either kind of database (ServingCanDecrypt).  Where
\* statements are transactional, whatever migrations ran, raced or failed, the
\* stored values are in the scheme of the recorded version (Readable:
\* aadForSchemaVersion), the migrations applied are exactly those up to it
\* (SchemaMatchesRecord: SchemaMigration.Before), and servers that start together
\* agree on the HMAC key (OneHMACKey: getHMACKey); what the commands that only
\* read report is so (ReportsHonest).  On MySQL an upgrade whose
\* undoing reports that it is complete has left everything as it was
\* (UpgradeUndone: schemaMigrateRollbackWithoutTx).
\* The storage commands beside a running portal: a finished export or list is
\* complete and without repetitions unless a row was removed or moved under its
\* pages (PagesComplete); an export that succeeded wrote what it found
\* (ExportWritten), an import stored all its records (ImportStoresAll); and
\* authenticators are validated only against metadata that was loaded
\* (AnswersLoaded).
StorageSound ==
  /\ part = "sql" => /\ TypeOKSchema
                     /\ Readable
                     /\ SchemaMatchesRecord
                     /\ ServingCanDecrypt
                     /\ OneHMACKey
                     /\ ReportsHonest
  /\ part = "mysql" => MySQL!TypeOKSchema /\ MySQL!ServingCanDecrypt /\ MySQL!UpgradeUndone
  /\ part = "command" => /\ Command!TypeOKCommands
                         /\ Command!PagesComplete
                         /\ Command!ExportWritten
                         /\ Command!ImportStoresAll
  /\ part = "metadata" => Metadata!AnswersLoaded

\* What is stored is changed only by what is meant to change it.  Only
\* change-key changes the raw key users' rows are encrypted with, on either kind
\* of database: a migration run with the wrong key fails.  A storage command
\* leaves alone the rows it was not asked to touch, whatever the portal writes
\* between its statements (CommandKept).  The cached metadata, and the blob a
\* server answers from, go back only when a command writes the row
\* (MetadataKept).
StoredKept ==
  [][/\ (part \in {"sql", "mysql"} /\ db.enc # NoRows /\ db'.enc # NoRows
           /\ \E p \in DOMAIN proc : proc'[p] # proc[p])
        => db'.enc.key.raw = db.enc.key.raw
     /\ part = "command" => Command!CommandKept
     /\ part = "metadata" => Metadata!MetadataKept]_<<part, schemaVars, cmdVars, mdsVars>>

\* A request is handled only by a server whose required providers passed their
\* startup checks (ServesAfterChecks, RequirementsFail); none finds the database
\* or the directory closed under it, unless it outlived the ten seconds it was
\* given (ProvidersOutliveRequests); and when the process is done nothing of it
\* is left running or open, also after a failed provisioning
\* (NothingLeftRunning).
ServiceSound ==
  part = "service" =>
    /\ Service!TypeOK
    /\ Service!ServesAfterChecks
    /\ Service!RequirementsFail
    /\ Service!ProvidersOutliveRequests
    /\ Service!NothingLeftRunning
=============================================================================
