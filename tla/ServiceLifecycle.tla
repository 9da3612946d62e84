-------------------------- MODULE ServiceLifecycle --------------------------
(***************************************************************************)
(* The life of the server process: RootRunE (commands/root.go) builds the  *)
(* providers and runs their startup checks (middlewares/startup.go), then  *)
(* Run (service/util.go) provisions the services, starts a goroutine for   *)
(* each, waits for a signal or for a service that fails, shuts all of them *)
(* down at once, closes the providers and waits for the goroutines.        *)
(*                                                                         *)
(* The services are the two HTTP servers, the watcher of the users file,   *)
(* the SIGHUP handler that reopens the log file and the garbage collector. *)
(***************************************************************************)
EXTENDS Naturals, Sequences, FiniteSets

CONSTANTS Requests,  \* slots of requests the main server handles at a time
          Prompt,    \* a started goroutine runs before the shutdown begins
          MaxHups    \* bound: SIGHUPs sent to the process

\* The constants have their types.
PromptAssumption == Prompt \in BOOLEAN
HupsAssumption == MaxHups \in Nat

Providers == {"storage", "session", "user", "notification", "ntp",
              "expressions", "webauthn-metadata"}

\* GetProvisioners.
Provisioners == <<"server", "metrics", "watcher", "signal", "gc">>

Services == {Provisioners[i] : i \in DOMAIN Provisioners}

Servers == {"server", "metrics"}

\* What the configuration chooses: startup checks that are turned off, whether
\* ntp.disable_failure is set, and the optional services.
Configs == [disabled : SUBSET {"notification", "ntp", "webauthn-metadata"},
            lenient : BOOLEAN,
            optional : SUBSET {"metrics", "watcher", "signal"}]

VARIABLES
    config,
    main,      \* where the main goroutine is
    failed,    \* providers whose startup check failed
    nextP,     \* the provisioner Run calls next
    svc,       \* each service: none, ready, spawned, running or returned
    down,      \* its Shutdown: no, called or done
    signalled, \* SIGINT or SIGTERM is in the quit channel
    cancelled, \* the context given to the services is done
    provider,  \* the user and the storage provider: open or closed
    request,   \* requests the main server is handling
    late,      \* history: the ten seconds of a server's Shutdown ran out
    collecting,\* a garbage collection is under way
    writable,  \* the log file can be opened
    log,       \* File.file: open or not
    hup,       \* a SIGHUP waits in the notify channel
    hups

process == <<config, main, failed, nextP, signalled, provider>>
running == <<svc, down, cancelled, request, late, collecting>>
logging == <<writable, log, hup, hups>>
vars == <<process, running, logging>>

Enabled == {"server", "gc"} \cup config.optional

Provisioned == {s \in Services : svc[s] # "none"}

Init ==
    /\ config \in Configs
    /\ main = "load"
    /\ failed = {}
    /\ nextP = 1
    /\ svc = [s \in Services |-> "none"]
    /\ down = [s \in Services |-> "no"]
    /\ signalled = FALSE /\ cancelled = FALSE /\ late = FALSE /\ collecting = FALSE
    /\ provider = [p \in {"user", "storage"} |-> "none"]
    /\ request = {}
    /\ writable = TRUE /\ log = "open" /\ hup = FALSE /\ hups = 0

-----------------------------------------------------------------------------
(* The start.                                                              *)

\* NewX509CertPool.  An error is fatal; so is a warning, as that the system's
\* certificates cannot be read: LoadProviders then returns before any provider
\* is made and the startup checks find none.
LoadTrustedCertificates ==
    /\ main = "load"
    /\ main' \in {"providers", "fatal"}
    /\ UNCHANGED <<config, failed, nextP, signalled, provider, running, logging>>

\* Every provider is made, or the errors are fatal.
NewProviders ==
    /\ main = "providers"
    /\ \/ /\ main' = "check"
          /\ provider' = [p \in {"user", "storage"} |-> "open"]
       \/ main' = "fatal" /\ UNCHANGED provider
    /\ UNCHANGED <<config, failed, nextP, signalled, running, logging>>

\* doStartupCheck for each provider: which ones are in errors at the end.  The
\* metadata provider requires the storage.
Failures(broken) ==
    LET bad == broken \ config.disabled IN
    bad \cup (IF "storage" \in bad THEN {"webauthn-metadata"} \ config.disabled ELSE {})

\* ErrProviderStartupCheck.FilterError: failures that keep the server down.
FilterError(errors) == errors \ (IF config.lenient THEN {"ntp"} ELSE {})

StartupChecks ==
    /\ main = "check"
    /\ \E broken \in SUBSET Providers : failed' = Failures(broken)
    /\ main' = IF FilterError(failed') = {} THEN "provision" ELSE "fatal"
    /\ UNCHANGED <<config, nextP, signalled, provider, running, logging>>

-----------------------------------------------------------------------------
(* Run: provisioning, starting, waiting.                                   *)

\* A provisioner makes its service, or none when it is not configured.
Provision ==
    /\ main = "provision" /\ nextP <= Len(Provisioners)
    /\ nextP' = nextP + 1
    /\ svc' = IF Provisioners[nextP] \in Enabled
              THEN [svc EXCEPT ![Provisioners[nextP]] = "ready"] ELSE svc
    /\ UNCHANGED <<config, main, failed, signalled, provider, down, cancelled,
                   request, late, collecting, logging>>

\* A listener or the watcher cannot be made: what was provisioned so far is
\* shut down and Run returns the error.
ProvisionFails ==
    /\ main = "provision" /\ nextP <= Len(Provisioners)
    /\ Provisioners[nextP] \in Enabled \ {"signal", "gc"}
    /\ down' = [s \in Services |-> IF s \in Provisioned THEN "done" ELSE "no"]
    /\ main' = "error"
    /\ UNCHANGED <<config, failed, nextP, signalled, provider, svc, cancelled,
                   request, late, collecting, logging>>

\* group.Go for each service.
StartServices ==
    /\ main = "provision" /\ nextP > Len(Provisioners)
    /\ svc' = [s \in Services |-> IF svc[s] = "ready" THEN "spawned" ELSE svc[s]]
    /\ main' = "running"
    /\ UNCHANGED <<config, failed, nextP, signalled, provider, down, cancelled,
                   request, late, collecting, logging>>

Signal ==
    /\ main \notin {"load", "providers", "check", "fatal", "error", "exited"}
    /\ ~signalled /\ signalled' = TRUE
    /\ UNCHANGED <<config, main, failed, nextP, provider, running, logging>>


\* The select in Run, and the cancel() after it.
InitiateShutdown ==
    /\ main = "running"
    /\ signalled \/ cancelled
    /\ Prompt => \A s \in Services : svc[s] # "spawned"
    /\ cancelled' = TRUE
    /\ main' = "stopping"
    /\ UNCHANGED <<config, failed, nextP, signalled, provider, svc, down,
                   request, late, collecting, logging>>

-----------------------------------------------------------------------------
(* The services.                                                           *)

\* The goroutine of a service is scheduled and enters Run.
RunService(s) ==
    /\ svc[s] = "spawned"
    /\ svc' = [svc EXCEPT ![s] = "running"]
    /\ UNCHANGED <<process, down, cancelled, request, late, collecting, logging>>

\* Serve returns an error: Run returns it and the group cancels the context.
ServeFails(s) ==
    /\ s \in Servers /\ svc[s] = "running" /\ down[s] = "no"
    /\ svc' = [svc EXCEPT ![s] = "returned"]
    /\ cancelled' = TRUE
    /\ UNCHANGED <<process, down, request, late, collecting, logging>>

\* A panic below the Run of the watcher or of the collector is recovered: Run
\* returns without an error and nothing else stops.
RunRecovers(s) ==
    /\ s \in {"watcher", "gc"} /\ svc[s] = "running" /\ ~collecting
    /\ svc' = [svc EXCEPT ![s] = "returned"]
    /\ UNCHANGED <<process, down, cancelled, request, late, collecting, logging>>

\* The main server takes and answers requests.
AcceptRequest(r) ==
    /\ svc["server"] = "running" /\ r \notin request
    /\ request' = request \cup {r}
    /\ UNCHANGED <<process, svc, down, cancelled, late, collecting, logging>>

FinishRequest(r) ==
    /\ r \in request
    /\ request' = request \ {r}
    /\ UNCHANGED <<process, svc, down, cancelled, late, collecting, logging>>

\* collect: the ticker fires, or the context is done and Run returns; with
\* both ready either may be chosen.
Collect ==
    /\ svc["gc"] = "running" /\ ~collecting /\ collecting' = TRUE
    /\ UNCHANGED <<process, svc, down, cancelled, request, late, logging>>

Collected ==
    /\ collecting /\ collecting' = FALSE
    /\ UNCHANGED <<process, svc, down, cancelled, request, late, logging>>

CollectorStops ==
    /\ svc["gc"] = "running" /\ ~collecting
    /\ cancelled \/ down["gc"] = "done"
    /\ svc' = [svc EXCEPT !["gc"] = "returned"]
    /\ UNCHANGED <<process, down, cancelled, request, late, collecting, logging>>

\* The channels that Shutdown closes let the Run of the watcher and of the
\* signal handler return, also when it starts after Shutdown.
ChannelCloses(s) ==
    /\ s \in {"watcher", "signal"} /\ svc[s] = "running" /\ down[s] = "done"
    /\ svc' = [svc EXCEPT ![s] = "returned"]
    /\ UNCHANGED <<process, down, cancelled, request, late, collecting, logging>>

-----------------------------------------------------------------------------
(* shutdown: every service in a goroutine of its own.                      *)

\* ShutdownWithContext of a server that serves closes the listener, with which
\* Serve returns, and waits for the requests, also for those of a Serve that
\* failed; of a server that does not serve yet it does nothing.  The Shutdown of the others closes a channel.
Shutdown(s) ==
    /\ main = "stopping" /\ s \in Provisioned /\ down[s] = "no"
    /\ IF s \in Servers /\ svc[s] # "spawned"
       THEN /\ down' = [down EXCEPT ![s] = "called"]
            /\ svc' = [svc EXCEPT ![s] = "returned"]
       ELSE down' = [down EXCEPT ![s] = "done"] /\ UNCHANGED svc
    /\ UNCHANGED <<process, cancelled, request, late, collecting, logging>>

\* The requests of the server are answered, or ten seconds are over.
ShutdownReturns(s) ==
    /\ down[s] = "called"
    /\ down' = [down EXCEPT ![s] = "done"]
    /\ late' = (late \/ (s = "server" /\ request # {}))
    /\ UNCHANGED <<process, svc, cancelled, request, collecting, logging>>

\* Mutant: Run waits for the servers to stop listening, not for the services'
\* Shutdown to return.
CloseUserProvider_Listening ==
    /\ main = "stopping" /\ \A s \in Provisioned \cap Servers : svc[s] = "returned"
    /\ provider' = [provider EXCEPT !["user"] = "closed"]
    /\ main' = "closing"
    /\ UNCHANGED <<config, failed, nextP, signalled, running, logging>>

CloseUserProvider ==
    /\ main = "stopping" /\ \A s \in Provisioned : down[s] = "done"
    /\ provider' = [provider EXCEPT !["user"] = "closed"]
    /\ main' = "closing"
    /\ UNCHANGED <<config, failed, nextP, signalled, running, logging>>

CloseStorageProvider ==
    /\ main = "closing"
    /\ provider' = [provider EXCEPT !["storage"] = "closed"]
    /\ main' = "waiting"
    /\ UNCHANGED <<config, failed, nextP, signalled, running, logging>>

\* group.Wait.
Exit ==
    /\ main = "waiting" /\ \A s \in Provisioned : svc[s] = "returned"
    /\ main' = "exited"
    /\ UNCHANGED <<config, failed, nextP, signalled, provider, running, logging>>

-----------------------------------------------------------------------------
(* The log file.                                                           *)

\* The directory of the log becomes unusable, or usable again.
Permission ==
    /\ main = "running" /\ hups < MaxHups
    /\ writable' = ~writable
    /\ UNCHANGED <<process, running, log, hup, hups>>

\* A SIGHUP; one that finds the channel full is dropped.
Hup ==
    /\ main = "running" /\ "signal" \in Provisioned /\ hups < MaxHups
    /\ hups' = hups + 1
    /\ hup' = TRUE
    /\ UNCHANGED <<process, running, writable, log>>

\* logging.Reopen: a file that is not open is not opened again.
Reopen ==
    /\ svc["signal"] = "running" /\ hup /\ hup' = FALSE
    /\ log' = IF log = "open" /\ writable THEN "open" ELSE "closed"
    /\ UNCHANGED <<process, running, writable, hups>>

-----------------------------------------------------------------------------
Terminated == main \in {"exited", "fatal", "error"}

Done == Terminated /\ UNCHANGED vars

Service(s) ==
    \/ RunService(s) \/ ChannelCloses(s) \/ Shutdown(s) \/ ShutdownReturns(s)

MainSteps ==
    \/ LoadTrustedCertificates \/ NewProviders \/ StartupChecks \/ Provision \/ StartServices
    \/ InitiateShutdown \/ CloseUserProvider \/ CloseStorageProvider \/ Exit

Next ==
    \/ ~Terminated /\ \/ MainSteps
                      \/ ProvisionFails
                      \/ Signal
                      \/ \E s \in Services : Service(s) \/ ServeFails(s) \/ RunRecovers(s)
                      \/ \E r \in Requests : AcceptRequest(r) \/ FinishRequest(r)
                      \/ Collect \/ Collected \/ CollectorStops
                      \/ Permission \/ Hup \/ Reopen
    \/ Done

Spec == Init /\ [][Next]_vars

\* Goroutines that can go on do; a collection ends and the collector's select
\* does not prefer its ticker for ever.
FairSpec ==
    /\ Spec
    /\ WF_vars(MainSteps)
    /\ \A s \in Services : WF_vars(Service(s))
    /\ WF_vars(Collected) /\ SF_vars(CollectorStops)
    /\ WF_vars(Reopen)

-----------------------------------------------------------------------------
(* Properties.                                                             *)

\* Every variable keeps its type.
TypeOK ==
    /\ config \in Configs
    /\ main \in {"load", "providers", "check", "provision", "running",
                 "stopping", "closing", "waiting", "exited", "fatal", "error"}
    /\ failed \subseteq Providers
    /\ nextP \in 1..Len(Provisioners) + 1
    /\ svc \in [Services -> {"none", "ready", "spawned", "running", "returned"}]
    /\ down \in [Services -> {"no", "called", "done"}]
    /\ {signalled, cancelled, late, collecting, writable, hup} \subseteq BOOLEAN
    /\ provider \in [{"user", "storage"} -> {"none", "open", "closed"}]
    /\ request \subseteq Requests
    /\ log \in {"open", "closed"}
    /\ hups \in 0..MaxHups

\* A request is handled only by a server all of whose required providers passed
\* their startup check, each after the providers it builds on: the metadata
\* check never counts as passed when the storage it reads from failed.
ServesAfterChecks ==
    request # {} =>
        /\ failed \subseteq {"ntp"}
        /\ "ntp" \in failed => config.lenient

\* A failed storage check takes down what requires it.
RequirementsFail ==
    "storage" \in failed => "webauthn-metadata" \in failed \cup config.disabled

\* No request finds the database or the directory closed under it, whatever
\* else stops at the same time, unless it outlived the ten seconds it was given.
ProvidersOutliveRequests ==
    \A p \in DOMAIN provider : provider[p] = "closed" /\ ~late => request = {}

\* When the process is done nothing of it is left: every service it provisioned
\* was shut down, also when a later one could not be provisioned, and after a
\* shutdown every goroutine has returned and both providers are closed.
NothingLeftRunning ==
    /\ main \in {"exited", "error"} => \A s \in Provisioned : down[s] = "done"
    /\ main = "exited" =>
          /\ \A s \in Provisioned : svc[s] = "returned"
          /\ \A p \in DOMAIN provider : provider[p] = "closed"
          /\ ~collecting
=============================================================================
