----------------------------- MODULE Controller -----------------------------
(***************************************************************************)
(* internal/app/controller.go: the life of the loopback listener.          *)
(*                                                                         *)
(* Goroutines:                                                             *)
(*   main    runs Start, then the tray, then Shutdown, then exits;         *)
(*   reload  whichever `go actions.Reload()` goroutine holds reloadMu (the *)
(*           others wait for it before touching anything);                 *)
(*   serve   one per deployment: http.Server.Serve and what follows it;    *)
(*   drain   one per replaced deployment: `go c.shutdownDeployment`.       *)
(*                                                                         *)
(* A critical section of c.mu that holds a single externally visible write *)
(* is one action.  The two that swap the snapshot are two actions each,    *)
(* with mu held between them: handler.runtime and the log level are        *)
(* atomics that requests read without any lock, so the point between the   *)
(* two stores can be observed.                                             *)
(*                                                                         *)
(* net.Listener and http.Server are the standard library's: a bound port   *)
(* is exclusive, Serve closes its listener when it returns, Shutdown       *)
(* closes only a listener that Serve has already tracked.                  *)
(***************************************************************************)
EXTENDS FiniteSets

CONSTANTS
  Config,      \* valid configurations: what config.Load can return
  Port,        \* loopback ports
  Level,       \* log levels
  PortOf,      \* server.port of each configuration
  LevelOf,     \* logging.level of each configuration
  DefaultLevel,\* the level logging.New starts with
  Deployment,  \* identities for the results of prepareDeployment (a bound)
  Conn,        \* client connections (a bound)
  None         \* Go's nil

ASSUME PortOfAssumption  == PortOf \in [Config -> Port]
ASSUME LevelOfAssumption == LevelOf \in [Config -> Level] /\ DefaultLevel \in Level
ASSUME NoneAssumption    == None \notin Config \cup Port \cup Deployment

VARIABLES
  runtime,     \* handler.runtime, named by the configuration it was built from
  level,       \* logs.level
  current,     \* c.current
  stopping,    \* c.stopping
  reloadMu,    \* holder of c.reloadMu
  mu,          \* holder of c.mu between two actions
  status,      \* c.status without the logging flag
  config,      \* deployment.config (and .runtime) of each deployment
  bound,       \* the listener of the deployment is open
  inShutdown,  \* http.Server.Shutdown has been called
  serve,       \* program counter of the serve goroutine
  drain,       \* program counter of the shutdownDeployment goroutine
  conns,       \* connections with a request in progress
  pc,          \* the main goroutine: where it is,
  startCfg,    \*   the cfg of Start,
  dep,         \*   the deployment Start or Shutdown has in hand
  rpc,         \* the goroutine inside Reload: where it is,
  cfg,         \*   and its local variables cfg,
  seen,        \*   current,
  next,        \*   next
  previous     \*   and previous

main    == <<pc, startCfg, dep>>
locals  == <<cfg, seen, next, previous>>
reload  == <<rpc, locals>>
locks   == <<stopping, reloadMu, mu>>
service == <<runtime, level, current>>
servers == <<config, bound, inShutdown, serve, drain, conns>>
vars    == <<runtime, level, current, stopping, reloadMu, mu, status,
             config, bound, inShutdown, serve, drain, conns,
             pc, startCfg, dep, rpc, cfg, seen, next, previous>>

-----------------------------------------------------------------------------
Free == "free"

StartPC  == {"load", "bind", "update", "commit", "publish"}
StopPC   == {"close", "drain", "wait"}
MainPC   == StartPC \cup {"run", "quit"} \cup StopPC \cup {"done", "exited"}
ReloadPC == {"idle", "load", "check", "same", "sameCommit", "bind", "swap",
             "swapCommit", "publish", "fail", "report"}
ServePC  == {"none", "spawned", "serving", "failed", "publish", "done"}
DrainPC  == {"none", "spawned", "draining", "done"}

\* status.Models is the table length of a configuration, kept as that
\* configuration; None is the zero value of a field.
Status(state, address, models) ==
  [state |-> state, address |-> address, models |-> models]

StatusState == {"starting", "running", "config_error", "listener_error", "stopped"}

Init ==
  /\ runtime = None /\ level = DefaultLevel /\ current = None
  /\ stopping = FALSE /\ reloadMu = Free /\ mu = Free
  /\ status = Status("starting", None, None)
  /\ config = [d \in Deployment |-> None]
  /\ bound = [d \in Deployment |-> FALSE]
  /\ inShutdown = [d \in Deployment |-> FALSE]
  /\ serve = [d \in Deployment |-> "none"]
  /\ drain = [d \in Deployment |-> "none"]
  /\ conns = [d \in Deployment |-> {}]
  /\ pc = "load" /\ startCfg = None /\ dep = None
  /\ rpc = "idle" /\ cfg = None /\ seen = None /\ next = None /\ previous = None

Publish(s) == status' = s

\* Variant: a missing Unlock.
NeverUnlock == UNCHANGED mu

Unlock == mu' = Free

\* Reload returns: its variables are gone and reloadMu is free again.
ReloadEnds ==
  /\ rpc' = "idle"
  /\ cfg' = None /\ seen' = None /\ next' = None /\ previous' = None
  /\ reloadMu' = Free

\* Variant: address and models are swapped.
PublishRunningSwapped(c) == Publish(Status("running", c, PortOf[c]))

\* publishRunning
PublishRunning(c) == Publish(Status("running", PortOf[c], c))

\* listenerAddress(active.config.Server.Port)
AddressOf(d) == PortOf[config[d]]

PortFree(p) == \A d \in Deployment : bound[d] => AddressOf(d) # p

\* prepareDeployment when c.listen succeeds; c.listen may also fail at any time,
\* because another program can hold the port.
PrepareDeployment(d, c) ==
  /\ config[d] = None
  /\ PortFree(PortOf[c])
  /\ config' = [config EXCEPT ![d] = c]
  /\ bound' = [bound EXCEPT ![d] = TRUE]
  /\ UNCHANGED <<inShutdown, serve, drain, conns>>

\* The end of a swap under mu: SetLevel, c.current = next, startServingLocked.
InstallDeployment(d) ==
  /\ level' = LevelOf[config[d]]
  /\ current' = d
  /\ serve' = [serve EXCEPT ![d] = "spawned"]
  /\ Unlock
  /\ UNCHANGED <<runtime, stopping, reloadMu, config, bound, inShutdown, drain, conns>>

\* http.Server.Shutdown up to its wait: refuse new work and close the listener,
\* unless Serve has not been called yet and so has not tracked it.
BeginShutdown(d) ==
  /\ inShutdown' = [inShutdown EXCEPT ![d] = TRUE]
  /\ bound' = [bound EXCEPT ![d] = @ /\ serve[d] # "serving"]

\* Variant: the context expires and Close is not called.
EndShutdownTimeout(d) == UNCHANGED conns

\* The wait of http.Server.Shutdown: it returns when no request is in progress,
\* or the context expires and http.Server.Close drops the requests that are.
EndShutdown(d) == conns' = [conns EXCEPT ![d] = {}]

-----------------------------------------------------------------------------
(* The main goroutine: Start. *)

\* config.Ensure or config.Load fails: configFailure, and the tray runs anyway.
StartConfigFails ==
  /\ pc = "load"
  /\ pc' = "run"
  /\ Publish(Status("config_error", None, None))
  /\ UNCHANGED <<startCfg, dep, service, locks, servers, reload>>

StartLoad ==
  /\ pc = "load"
  /\ \E c \in Config : pc' = "bind" /\ startCfg' = c
  /\ UNCHANGED <<dep, service, locks, status, servers, reload>>

StartListenFails ==
  /\ pc = "bind"
  /\ pc' = "run" /\ startCfg' = None
  /\ Publish(Status("listener_error", PortOf[startCfg], None))
  /\ UNCHANGED <<dep, service, locks, servers, reload>>

StartListen ==
  /\ pc = "bind"
  /\ \E d \in Deployment :
        /\ PrepareDeployment(d, startCfg)
        /\ pc' = "update" /\ dep' = d
  /\ UNCHANGED <<startCfg, service, locks, status, reload>>

\* activateInitial takes mu and stores the snapshot first...
StartUpdate ==
  /\ pc = "update" /\ mu = Free
  /\ mu' = "start"
  /\ runtime' = startCfg
  /\ pc' = "commit"
  /\ UNCHANGED <<startCfg, dep, level, current, stopping, reloadMu, status,
                 servers, reload>>

\* ... then the level, the deployment and its goroutine, and releases mu.
StartCommit ==
  /\ pc = "commit"
  /\ InstallDeployment(dep)
  /\ pc' = "publish"
  /\ UNCHANGED <<startCfg, dep, status, reload>>

StartPublish ==
  /\ pc = "publish"
  /\ PublishRunning(startCfg)
  /\ pc' = "run" /\ startCfg' = None /\ dep' = None
  /\ UNCHANGED <<service, locks, servers, reload>>

-----------------------------------------------------------------------------
(* The main goroutine: Shutdown and exit. *)

\* The user quits: the event loop ends and calls shutdown().
Quit ==
  /\ pc = "run"
  /\ pc' = "quit"
  /\ UNCHANGED <<startCfg, dep, service, locks, status, servers, reload>>

ShutdownLocks == reloadMu = Free /\ mu = Free

\* Both mutexes are taken, the controller stops and gives up its deployment.
ShutdownLock ==
  /\ pc = "quit" /\ ShutdownLocks
  /\ reloadMu' = "shutdown"
  /\ stopping' = TRUE
  /\ current' = None
  /\ pc' = (IF current = None THEN "wait" ELSE "close") /\ dep' = current
  /\ UNCHANGED <<startCfg, runtime, level, mu, status, servers, reload>>

ShutdownClose ==
  /\ pc = "close"
  /\ BeginShutdown(dep)
  /\ pc' = "drain"
  /\ UNCHANGED <<startCfg, dep, service, locks, status, config, serve, drain, conns,
                 reload>>

ShutdownDrain ==
  /\ pc = "drain"
  /\ EndShutdown(dep)
  /\ pc' = "wait" /\ dep' = None
  /\ UNCHANGED <<startCfg, service, locks, status, config, bound, inShutdown, serve,
                 drain, reload>>

\* Variant: servers.Wait is missing.
ServersIgnored == TRUE

\* c.servers.Wait()
ServersDone == \A d \in Deployment : serve[d] \in {"none", "done"}

\* servers.Wait returns, then StateStopped and the deferred unlock.
ShutdownFinish ==
  /\ pc = "wait"
  /\ ServersDone
  /\ Publish(Status("stopped", None, None))
  /\ reloadMu' = Free
  /\ pc' = "done"
  /\ UNCHANGED <<startCfg, dep, service, stopping, mu, servers, reload>>

\* main returns: the process ends whatever the other goroutines are doing (a
\* Reload, a drain that nobody waits for) and its sockets are closed.
Exit ==
  /\ pc = "done"
  /\ pc' = "exited"
  /\ bound' = [d \in Deployment |-> FALSE]
  /\ conns' = [d \in Deployment |-> {}]
  /\ drain' = [d \in Deployment |-> "none"]
  /\ ReloadEnds
  /\ UNCHANGED <<startCfg, dep, service, stopping, mu, status, config, inShutdown, serve>>

-----------------------------------------------------------------------------
(* Reload: the holder of reloadMu. *)

\* A click on Reload starts a goroutine; the tray is up once Start has returned.
ReloadLock ==
  /\ pc \notin StartPC \cup {"exited"}
  /\ reloadMu = Free
  /\ reloadMu' = "reload"
  /\ rpc' = "load"
  /\ UNCHANGED <<locals, service, stopping, mu, status, servers, main>>

\* config.Load rejects the file.
ReloadLoadFails ==
  /\ rpc = "load"
  /\ rpc' = "fail"
  /\ UNCHANGED <<locals, service, locks, status, servers, main>>

ReloadLoad ==
  /\ rpc = "load"
  /\ \E c \in Config : rpc' = "check" /\ cfg' = c
  /\ UNCHANGED <<seen, next, previous, service, locks, status, servers, main>>

\* The first look at c.stopping and c.current.
ReloadStopping ==
  /\ rpc = "check" /\ mu = Free /\ stopping
  /\ ReloadEnds
  /\ UNCHANGED <<service, stopping, mu, status, servers, main>>

\* Variant: the ports are not compared.
AnyPort == current # None

\* current.config.Server.Port == cfg.Server.Port
SamePort == current # None /\ AddressOf(current) = PortOf[cfg]

ReloadCheck ==
  /\ rpc = "check" /\ mu = Free /\ ~stopping
  /\ IF SamePort THEN rpc' = "same" /\ seen' = current
                 ELSE rpc' = "bind" /\ UNCHANGED seen
  /\ UNCHANGED <<cfg, next, previous, service, locks, status, servers, main>>

\* The port is the one in use: mu again, and the deployment must still be there.
\* The test of c.stopping in between never succeeds (StopChecked).
ReloadSame ==
  /\ rpc = "same" /\ mu = Free
  /\ IF stopping
     THEN /\ ReloadEnds
          /\ UNCHANGED <<runtime, mu>>
     ELSE IF current = seen
     THEN /\ mu' = "reload"
          /\ runtime' = cfg
          /\ rpc' = "sameCommit"
          /\ UNCHANGED <<locals, reloadMu>>
     ELSE /\ rpc' = "bind" /\ seen' = None
          /\ UNCHANGED <<cfg, next, previous, runtime, reloadMu, mu>>
  /\ UNCHANGED <<level, current, stopping, status, servers, main>>

\* Variant: current.config is not replaced.
RecordNothing == UNCHANGED config

\* current.config, current.runtime = cfg, runtimeSnapshot
RecordConfig == config' = [config EXCEPT ![seen] = cfg]

ReloadSameCommit ==
  /\ rpc = "sameCommit"
  /\ RecordConfig
  /\ level' = LevelOf[cfg]
  /\ Unlock
  /\ rpc' = "publish" /\ seen' = None
  /\ UNCHANGED <<cfg, next, previous, runtime, current, stopping, reloadMu, status,
                 bound, inShutdown, serve, drain, conns, main>>

ReloadListenFails ==
  /\ rpc = "bind"
  /\ rpc' = "fail"
  /\ UNCHANGED <<locals, service, locks, status, servers, main>>

\* Variant: the listener in force is closed before the new one is bound.
ReloadListenClosingFirst ==
  /\ rpc = "bind" /\ current # None
  /\ BeginShutdown(current)
  /\ UNCHANGED <<service, locks, status, config, serve, drain, conns, main, reload>>

ReloadListen ==
  /\ rpc = "bind"
  /\ \E d \in Deployment :
        /\ PrepareDeployment(d, cfg)
        /\ rpc' = "swap" /\ next' = d
  /\ UNCHANGED <<cfg, seen, previous, service, locks, status, main>>

\* Variant: the deployment read at the first check is the one replaced.
ReplacedStale == seen

\* previous := c.current
Replaced == current

\* mu for the swap; again c.stopping cannot have changed (StopChecked).
ReloadSwap ==
  /\ rpc = "swap" /\ mu = Free
  /\ IF stopping
     THEN /\ bound' = [bound EXCEPT ![next] = FALSE]
          /\ ReloadEnds
          /\ UNCHANGED <<runtime, mu>>
     ELSE /\ mu' = "reload"
          /\ runtime' = cfg
          /\ rpc' = "swapCommit" /\ previous' = Replaced
          /\ UNCHANGED <<cfg, seen, next, bound, reloadMu>>
  /\ UNCHANGED <<level, current, stopping, status, config,
                 inShutdown, serve, drain, conns, main>>

ReloadSwapCommit ==
  /\ rpc = "swapCommit"
  /\ InstallDeployment(next)
  /\ rpc' = "publish" /\ next' = None
  /\ UNCHANGED <<cfg, seen, previous, status, main>>

\* publishRunning, the goroutine that drains the replaced deployment, unlock.
ReloadPublish ==
  /\ rpc = "publish"
  /\ PublishRunning(cfg)
  /\ drain' = [d \in Deployment |->
                 IF d = previous THEN "spawned" ELSE drain[d]]
  /\ ReloadEnds
  /\ UNCHANGED <<service, stopping, mu, config, bound, inShutdown, serve, conns, main>>

\* publishFailure: the deployment is read under mu, the status published after.
ReloadFail ==
  /\ rpc = "fail" /\ mu = Free
  /\ rpc' = "report" /\ seen' = current
  /\ UNCHANGED <<cfg, next, previous, service, locks, status, servers, main>>

\* Variant: the failure is always reported as if nothing were being served.
FailureStatusBare(d) == Status("config_error", None, None)

FailureStatus(d) ==
  IF d = None THEN Status("config_error", None, None)
  ELSE Status("config_error", AddressOf(d), config[d])

ReloadReport ==
  /\ rpc = "report"
  /\ Publish(FailureStatus(seen))
  /\ ReloadEnds
  /\ UNCHANGED <<service, stopping, mu, servers, main>>

-----------------------------------------------------------------------------
(* The serve goroutine of deployment d. *)

\* http.Server.Serve tracks the listener and accepts...
ServeStart(d) ==
  /\ serve[d] = "spawned" /\ ~inShutdown[d]
  /\ serve' = [serve EXCEPT ![d] = "serving"]
  /\ UNCHANGED <<service, locks, status, config, bound, inShutdown, drain, conns,
                 main, reload>>

\* ... or finds the server shut down already and closes the listener.
ServeRefused(d) ==
  /\ serve[d] = "spawned" /\ inShutdown[d]
  /\ serve' = [serve EXCEPT ![d] = "done"]
  /\ bound' = [bound EXCEPT ![d] = FALSE]
  /\ UNCHANGED <<service, locks, status, config, inShutdown, drain, conns, main, reload>>

\* Serve returns http.ErrServerClosed.
ServeClosed(d) ==
  /\ serve[d] = "serving" /\ inShutdown[d]
  /\ serve' = [serve EXCEPT ![d] = "done"]
  /\ UNCHANGED <<service, locks, status, config, bound, inShutdown, drain, conns,
                 main, reload>>

\* Accept fails for good and Serve closes the listener.
ServeFail(d) ==
  /\ serve[d] = "serving" /\ ~inShutdown[d]
  /\ serve' = [serve EXCEPT ![d] = "failed"]
  /\ bound' = [bound EXCEPT ![d] = FALSE]
  /\ UNCHANGED <<service, locks, status, config, inShutdown, drain, conns, main, reload>>

\* Variant: the lost deployment is not given up.
IsCurrentNever(d) == FALSE

IsCurrent(d) == current = d /\ ~stopping

ServeLost(d) ==
  /\ serve[d] = "failed" /\ mu = Free
  /\ IF IsCurrent(d)
     THEN /\ current' = None
          /\ serve' = [serve EXCEPT ![d] = "publish"]
     ELSE /\ serve' = [serve EXCEPT ![d] = "done"]
          /\ UNCHANGED current
  /\ UNCHANGED <<runtime, level, locks, status, config, bound, inShutdown, drain,
                 conns, main, reload>>

ServePublish(d) ==
  /\ serve[d] = "publish"
  /\ Publish(Status("listener_error", AddressOf(d), config[d]))
  /\ serve' = [serve EXCEPT ![d] = "done"]
  /\ UNCHANGED <<service, locks, config, bound, inShutdown, drain, conns, main, reload>>

-----------------------------------------------------------------------------
(* The goroutine `go c.shutdownDeployment(previous)`, and the clients. *)

DrainClose(d) ==
  /\ drain[d] = "spawned"
  /\ BeginShutdown(d)
  /\ drain' = [drain EXCEPT ![d] = "draining"]
  /\ UNCHANGED <<service, locks, status, config, serve, conns, main, reload>>

DrainReturn(d) ==
  /\ drain[d] = "draining"
  /\ EndShutdown(d)
  /\ drain' = [drain EXCEPT ![d] = "done"]
  /\ UNCHANGED <<service, locks, status, config, bound, inShutdown, serve, main, reload>>

ConnOpen(d, k) ==
  /\ serve[d] = "serving" /\ bound[d]
  /\ \A e \in Deployment : k \notin conns[e]
  /\ conns' = [conns EXCEPT ![d] = @ \cup {k}]
  /\ UNCHANGED <<service, locks, status, config, bound, inShutdown, serve, drain,
                 main, reload>>

ConnClose(d, k) ==
  /\ k \in conns[d]
  /\ conns' = [conns EXCEPT ![d] = @ \ {k}]
  /\ UNCHANGED <<service, locks, status, config, bound, inShutdown, serve, drain,
                 main, reload>>

-----------------------------------------------------------------------------
Start ==
  \/ StartConfigFails \/ StartLoad \/ StartListenFails \/ StartListen
  \/ StartUpdate \/ StartCommit \/ StartPublish

Shutdown == ShutdownLock \/ ShutdownClose \/ ShutdownDrain \/ ShutdownFinish

\* What the holder of reloadMu does next.
ReloadStep ==
  \/ ReloadLoadFails \/ ReloadLoad \/ ReloadStopping \/ ReloadCheck
  \/ ReloadSame \/ ReloadSameCommit \/ ReloadListenFails \/ ReloadListen
  \/ ReloadSwap \/ ReloadSwapCommit \/ ReloadPublish
  \/ ReloadFail \/ ReloadReport

\* What the serve goroutine does by itself; a failing listener is not its doing.
ServeStep(d) ==
  \/ ServeStart(d) \/ ServeRefused(d) \/ ServeClosed(d)
  \/ ServeLost(d) \/ ServePublish(d)

DrainStep(d) == DrainClose(d) \/ DrainReturn(d)

Environment(d) ==
  \/ ServeFail(d)
  \/ \E k \in Conn : ConnOpen(d, k) \/ ConnClose(d, k)

Terminated == pc = "exited" /\ UNCHANGED vars

Next ==
  \/ Start \/ Quit \/ Shutdown \/ Exit
  \/ ReloadLock \/ ReloadStep
  \/ \E d \in Deployment : ServeStep(d) \/ DrainStep(d) \/ Environment(d)
  \/ Terminated

\* Goroutines that can run do run.  Shutdown's first step competes for reloadMu
\* with the user's clicks and gets it in the end (Go mutexes hand themselves to
\* a waiter that starves).  Nothing is assumed of the user, of the clients or of
\* the listener's health.
Fairness ==
  /\ WF_vars(Start) /\ SF_vars(Shutdown) /\ WF_vars(Exit)
  /\ WF_vars(ReloadStep)
  /\ \A d \in Deployment : WF_vars(ServeStep(d)) /\ WF_vars(DrainStep(d))

Spec == Init /\ [][Next]_vars /\ Fairness

-----------------------------------------------------------------------------
(* Safety. *)

Maybe(S) == S \cup {None}

\* The variables of controller.go and the goroutines hold values of their types.
TypeOK ==
  /\ runtime \in Maybe(Config) /\ level \in Level /\ current \in Maybe(Deployment)
  /\ stopping \in BOOLEAN
  /\ reloadMu \in {Free, "reload", "shutdown"} /\ mu \in {Free, "start", "reload"}
  /\ status \in [state : StatusState, address : Maybe(Port), models : Maybe(Config)]
  /\ config \in [Deployment -> Maybe(Config)]
  /\ bound \in [Deployment -> BOOLEAN] /\ inShutdown \in [Deployment -> BOOLEAN]
  /\ serve \in [Deployment -> ServePC] /\ drain \in [Deployment -> DrainPC]
  /\ conns \in [Deployment -> SUBSET Conn]
  /\ pc \in MainPC /\ startCfg \in Maybe(Config) /\ dep \in Maybe(Deployment)
  /\ rpc \in ReloadPC /\ cfg \in Maybe(Config)
  /\ {seen, next, previous} \subseteq Maybe(Deployment)

\* Whenever c.mu is free, the snapshot requests read, the log level and the
\* deployment the controller believes in come from one configuration: Reload
\* never leaves part of one behind.
SnapshotCoherent ==
  mu = Free =>
    /\ runtime # None => level = LevelOf[runtime]
    /\ current # None => config[current] = runtime

\* An open listener always has somebody who will close it: it is current, or in
\* the hands of Start, Reload or Shutdown, or its drain goroutine has yet to
\* close it, or its server was shut down before Serve began and Serve will.
NoLeakedListener ==
  \A d \in Deployment : bound[d] =>
    \/ d \in {current, dep, next, previous}
    \/ drain[d] = "spawned"
    \/ inShutdown[d] /\ serve[d] = "spawned"

\* The deployment the controller offers is not being drained, its goroutine has
\* not ended, and its listener is open unless the failure is still unnoticed.
CurrentServes ==
  current # None =>
    /\ ~inShutdown[current] /\ drain[current] = "none"
    /\ serve[current] \in {"spawned", "serving", "failed"}
    /\ bound[current] \/ serve[current] = "failed"

\* Once Reload has seen that the application is not stopping, that stays true for
\* as long as it holds reloadMu: its two later tests of c.stopping, under mu, can
\* never succeed, and nothing is installed behind Shutdown's back.
StopChecked ==
  rpc \in {"same", "sameCommit", "bind", "swap", "swapCommit", "publish"} =>
    ~stopping

\* When Shutdown has returned no listener is open and no serve goroutine runs,
\* including those of deployments that were replaced moments before.
StoppedIsQuiet ==
  pc = "done" =>
    /\ current = None
    /\ \A d \in Deployment : ~bound[d] /\ serve[d] \in {"none", "done"}

\* shutdownDeployment returns only when the deployment has no request in progress,
\* because they finished or because Close dropped them. So when Shutdown has returned,
\* the only requests the end of the process can still cut off are those of a listener
\* that a reload replaced and that is still being drained (Reload's
\* `go c.shutdownDeployment(previous)`, which nobody waits for), and of one that failed
\* by itself and was never shut down.
DrainedIsEmpty ==
  \A d \in Deployment : conns[d] # {} =>
    /\ drain[d] # "done"
    /\ pc \in {"wait", "done"} /\ inShutdown[d] => drain[d] # "none"
    /\ pc = "done" => \/ drain[d] \in {"spawned", "draining"}
                      \/ serve[d] = "done" /\ ~inShutdown[d]

\* Nobody is inside Reload, Start or Shutdown.
Quiescent == pc = "run" /\ reloadMu = Free

\* With a deployment in force, the tray shows its address and its models after
\* every Reload, whether it succeeded or failed.
StatusNamesCurrent ==
  Quiescent /\ current # None /\ status.state \in {"running", "config_error"} =>
    status.address = AddressOf(current) /\ status.models = config[current]

\* trayHealthForStatus = trayError
Red ==
  \/ status.state = "listener_error"
  \/ status.state = "config_error" /\ status.address = None

\* README.md:249: red means no listener is available, and green (or yellow) that
\* one is, once the goroutines that lost a listener have had their say.
RedMeansNoListener ==
  Quiescent /\ (\A d \in Deployment : serve[d] \notin {"failed", "publish"}) =>
    (Red <=> current = None)

-----------------------------------------------------------------------------
(* What a step may never do, and what must happen. *)

\* A configuration reaches the request handler only behind a listener for its
\* port: one that is open, or that was and whose failure is not yet noticed.
CommitBehindListener ==
  [][ runtime' # runtime =>
      \E d \in Deployment :
        /\ config[d] # None /\ AddressOf(d) = PortOf[runtime']
        /\ bound[d] \/ serve[d] = "failed" ]_vars

\* The listener in force is closed by nothing but its own failure: a port change
\* binds and installs the new one first and only then drains the old one.
NoServiceGap ==
  [][ \A d \in Deployment :
        current = d /\ bound[d] /\ ~bound'[d] => serve'[d] = "failed" ]_vars

\* Quitting ends the process: Shutdown is not kept waiting for ever by Reload, by
\* a serve goroutine or by a deployment still being drained.
QuitTerminates == pc = "quit" ~> pc = "exited"

\* Reload always gives reloadMu back, so the next click is not ignored.
ReloadReturns == reloadMu = "reload" ~> reloadMu # "reload" \/ pc = "exited"

\* An open listener that is not the one in force is put into force or closed.
ListenerReleased ==
  \A d \in Deployment : (bound[d] /\ current # d) ~> (~bound[d] \/ current = d)

-----------------------------------------------------------------------------
(* The service this implements. *)

Active == IF current = None THEN None ELSE config[current]

Open == {AddressOf(d) : d \in {e \in Deployment : bound[e]}}

Phase == IF pc \in {"done", "exited"} THEN "stopped"
         ELSE IF stopping THEN "stopping" ELSE "up"

PromisedService == INSTANCE Service WITH active <- Active, open <- Open, phase <- Phase

\* Every step of the goroutines is a step of Service or leaves it as it is.
ImplementsService == PromisedService!Spec

=============================================================================
