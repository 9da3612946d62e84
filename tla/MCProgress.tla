----------------------------- MODULE MCProgress -----------------------------
(***************************************************************************)
(* What must eventually happen, of the components that wait: for a row     *)
(* lock, a mutex, a channel, a database, a goroutine or an answer.  One    *)
(* component runs in a behaviour; the variables of the others rest.        *)
(***************************************************************************)
EXTENDS Naturals

CONSTANTS a1, a2,   \* requests, writers, workers, processes or polls
          u1, l1, l2, k1, k2, p1,
          None, Nobody, NoUser, NoLink, NoPassword, NoAccount, Empty, NoClient,
          NoProc, NoKey, Rotated

VARIABLES part, pc, faults, config,
          acct, owner, spent, expired, mailed, req, tx, writes, lost,
          file, synced, mem, mutex, pmutex, cooldown, events, reload, op, next, up, editing, edits, stale,
          pool, size, closing, wake, conn, starting, closer, client, then,
          db, work, lock, proc, commands,
          main, failed, nextP, svc, down, signalled, cancelled, provider,
          request, late, collecting, writable, log, hup, hups,
          device, consent, tab, poll, tokens

Reset == INSTANCE PasswordReset WITH Requests <- {a1, a2}, Users <- {u1}, Links <- {l1, l2}, MaxFaults <- 0
File == INSTANCE FileUserDatabase WITH
          Writers <- {a1, a2}, Users <- {u1}, Passwords <- {p1}, Watch <- TRUE,
          MaxEvents <- 1, MaxEdits <- 0, MaxFaults <- 0
Pool == INSTANCE LDAPClientPool WITH Workers <- {a1, a2}, Clients <- {k1, k2}, Count <- 1, CloseTimeout <- FALSE
Schema == INSTANCE StorageSchema WITH
            Procs <- {a1, a2}, Keys <- {k1}, KeyDerivation <- 3, RowScoped <- 4, Latest <- 5,
            Transactional <- TRUE, AdminAlone <- TRUE, MaxFaults <- 1, MaxCommands <- 1
Life == INSTANCE ServiceLifecycle WITH Requests <- {a1}, Prompt <- TRUE, MaxHups <- 0
Device == INSTANCE OAuth2Device WITH
            Tabs <- {a1, a2}, Users <- {u1}, UserOf <- [t \in {a1, a2} |-> u1], Polls <- {a1, a2}, Serial <- TRUE

resetVars == <<acct, owner, spent, expired, mailed, req, tx, writes, lost>>
fileVars == <<file, synced, mem, mutex, pmutex, cooldown, events, reload, op, next, up, editing, edits, stale>>
poolVars == <<pool, size, closing, wake, conn, starting, closer, client, then>>
schemaVars == <<db, work, lock, proc, commands>>
lifeVars == <<main, failed, nextP, svc, down, signalled, cancelled, provider,
              request, late, collecting, writable, log, hup, hups>>
deviceVars == <<device, consent, tab, poll, tokens>>
vars == <<part, pc, faults, config, resetVars, fileVars, poolVars, schemaVars, lifeVars, deviceVars>>

NoReset ==
  /\ acct = None /\ owner = None /\ spent = None /\ expired = None /\ mailed = None
  /\ req = None /\ tx = None /\ writes = None /\ lost = None
NoFile ==
  /\ file = None /\ synced = None /\ mem = None /\ mutex = None /\ pmutex = None
  /\ cooldown = None /\ events = None /\ reload = None /\ op = None /\ next = None
  /\ up = None /\ editing = None /\ edits = None /\ stale = None
NoPool ==
  /\ pool = None /\ size = None /\ closing = None /\ wake = None /\ conn = None
  /\ starting = None /\ closer = None /\ client = None /\ then = None
NoSchema == db = None /\ work = None /\ lock = None /\ proc = None /\ commands = None
NoLife ==
  /\ main = None /\ failed = None /\ nextP = None /\ svc = None /\ down = None
  /\ signalled = None /\ cancelled = None /\ provider = None /\ request = None
  /\ late = None /\ collecting = None /\ writable = None /\ log = None
  /\ hup = None /\ hups = None
NoDevice == device = None /\ consent = None /\ tab = None /\ poll = None /\ tokens = None

\* The service has all its optional parts, and starts.
MCInit ==
  \/ /\ part = "reset" /\ Reset!Init /\ acct[u1] = "enabled" /\ config = None
     /\ NoFile /\ NoPool /\ NoSchema /\ NoLife /\ NoDevice
  \/ /\ part = "file" /\ File!Init /\ config = None
     /\ NoReset /\ NoPool /\ NoSchema /\ NoLife /\ NoDevice
  \/ /\ part = "pool" /\ Pool!Init /\ faults = None /\ config = None
     /\ NoReset /\ NoFile /\ NoSchema /\ NoLife /\ NoDevice
  \/ /\ part = "schema" /\ Schema!Init /\ ~db.damaged /\ db.recorded \notin {1, 3, 4, 5} /\ pc = None
     /\ NoReset /\ NoFile /\ NoPool /\ NoLife /\ NoDevice
  \/ /\ part = "life" /\ Life!Init /\ config.disabled = {} /\ config.lenient
     /\ config.optional = {"metrics", "watcher", "signal"}
     /\ pc = None /\ faults = None
     /\ NoReset /\ NoFile /\ NoPool /\ NoSchema /\ NoDevice
  \/ /\ part = "device" /\ Device!Init /\ pc = None /\ faults = None /\ config = None
     /\ NoReset /\ NoFile /\ NoPool /\ NoSchema /\ NoLife

\* One component takes a step.
OnlyReset == part = "reset" /\ UNCHANGED <<part, config, fileVars, poolVars, schemaVars, lifeVars, deviceVars>>
OnlyFile == part = "file" /\ UNCHANGED <<part, config, resetVars, poolVars, schemaVars, lifeVars, deviceVars>>
OnlyPool == part = "pool" /\ UNCHANGED <<part, faults, config, resetVars, fileVars, schemaVars, lifeVars, deviceVars>>
OnlySchema == part = "schema" /\ UNCHANGED <<part, pc, resetVars, fileVars, poolVars, lifeVars, deviceVars>>
OnlyLife == part = "life" /\ UNCHANGED <<part, pc, faults, resetVars, fileVars, poolVars, schemaVars, deviceVars>>
OnlyDevice == part = "device" /\ UNCHANGED <<part, pc, faults, config, resetVars, fileVars, poolVars, schemaVars, lifeVars>>

MCNext ==
  \/ OnlyReset /\ Reset!Next /\ acct' = acct /\ expired' = {}
  \/ OnlyFile /\ File!Next /\ \A a \in {a1, a2} : op'[a].kind \notin {"CreateUser", "AdminUpdateUser", "ChangePassword"}
  \/ OnlyPool /\ Pool!Next
  \/ OnlySchema /\ Schema!Next
  \/ OnlyLife /\ Life!Next /\ failed' = {} /\ main' # "error"
  \/ OnlyDevice /\ Device!Next

(***************************************************************************)
(* Fairness: the conditions of each component's FairSpec.  A behaviour is  *)
(* of one component, so that one condition can be about an action of each. *)
(***************************************************************************)
\* Handlers and writers that wait for locks and mutexes.
Handles(a) == (OnlyReset /\ Reset!Progress(a)) \/ (OnlyFile /\ File!Progress(a))
Installs == (OnlyFile /\ File!LoadInstall) \/ (OnlyLife /\ Life!CollectorStops)

\* Goroutines and processes that nothing blocks.
Works(a, s) ==
  \/ OnlyPool /\ Pool!WorkerStep(a)
  \/ OnlySchema /\ Schema!MigrateStep(a)
  \/ OnlyDevice /\ Device!Answering(a)
  \/ OnlyLife /\ Life!Service(s)
Starts(a, s) ==
  \/ OnlySchema /\ Schema!Start(a)
  \/ OnlyDevice /\ Device!Poll(a)
  \/ OnlyLife /\ Life!Service(s)
Closes ==
  \/ OnlyPool /\ Pool!Drain
  \/ OnlyFile /\ File!HandleEvent
  \/ OnlyLife /\ Life!MainSteps
  \/ OnlyDevice /\ Device!Redeem(a1)
Waits ==
  \/ OnlyPool /\ Pool!Wait
  \/ OnlyFile /\ File!LoadRead
  \/ OnlyLife /\ Life!Collected
  \/ OnlyDevice /\ Device!Redeem(a2)
Ticks == (OnlyFile /\ File!CooldownEnds) \/ (OnlyLife /\ Life!Service("gc"))
Restarts == OnlyFile /\ File!StartupCheck

MCSpec ==
  /\ MCInit /\ [][MCNext]_vars
  /\ SF_vars(Handles(a1)) /\ SF_vars(Handles(a2)) /\ SF_vars(Installs)
  /\ WF_vars(Works(a1, "server")) /\ WF_vars(Works(a2, "metrics"))
  /\ WF_vars(Starts(a1, "watcher")) /\ WF_vars(Starts(a2, "signal"))
  /\ WF_vars(Closes) /\ WF_vars(Waits) /\ WF_vars(Ticks) /\ WF_vars(Restarts)

-----------------------------------------------------------------------------
(* a1 and a2 play the same part: what is said of a1 holds of a2.           *)

\* Every password reset request ends: resets that wait on each other's links
\* are resolved (ResetPasswordPOST, AdminUserPasswordPUT).
RequestsEnd == (part = "reset" /\ pc[a1] # "idle") ~> (part = "reset" /\ pc[a1] = "idle")

\* Every change of an account returns: the two mutexes of the file provider
\* and its reload never block each other for good.
ChangesReturn == (part = "file" /\ pc[a1] # "idle") ~> (part = "file" /\ pc[a1] = "idle")

\* Close of the LDAP pool returns: it is woken once the workers have released
\* their clients, whatever the order of their decrements, their tokens and its
\* looks at the size; it does not need its timeout (wait, forget).
CloseReturns == (part = "pool" /\ closing) ~> (part = "pool" /\ closer = "done")

\* Once the administrator is done and the right key is configured, every
\* server gets through its start-up, however many crashes, failed statements
\* and lost races came before ("Authelia will automatically upgrade your
\* schema on startup").
ServersComeUp ==
  <>[](part = "schema" /\ Schema!Openable) => <>[](part = "schema" /\ \A a \in {a1, a2} : proc[a].pc = "serving")


\* An approved device that keeps polling is issued its tokens.
ApprovalReachesDevice ==
  (part = "device" /\ device.status = "approved" /\ device.active) ~> (part = "device" /\ tokens # {})
=============================================================================
