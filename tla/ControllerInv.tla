---------------------------- MODULE ControllerInv ----------------------------
(***************************************************************************)
(* The inductive invariant of Controller: what is true between any two     *)
(* steps, in parts named for what they are about.  The properties of       *)
(* Controller follow from it (ControllerProofs).                           *)
(***************************************************************************)
EXTENDS Controller

\* Who holds which mutex, and how far Shutdown and Start have come.
LockInv ==
  /\ mu = "start" <=> pc = "commit"
  /\ mu = "reload" <=> rpc \in {"sameCommit", "swapCommit"}
  /\ reloadMu = "reload" <=> rpc # "idle"
  /\ reloadMu = "shutdown" <=> pc \in StopPC
  /\ stopping <=> pc \in StopPC \cup {"done", "exited"}
  /\ pc \in StartPC => rpc = "idle"
  /\ StopChecked

\* The local variables of Start and Shutdown.
MainInv ==
  /\ pc \in {"bind", "update", "commit", "publish"} => startCfg # None
  /\ dep # None <=> pc \in {"update", "commit", "publish", "close", "drain"}
  /\ pc \in StartPC \ {"publish"} \/ stopping => current = None

\* The local variables of Reload.
ReloadInv ==
  /\ rpc \in {"check", "same", "sameCommit", "bind", "swap", "swapCommit",
                    "publish"} => cfg # None
  /\ seen # None => rpc \in {"same", "sameCommit", "report"}
  /\ rpc \in {"same", "sameCommit"} => seen # None
  /\ next # None <=> rpc \in {"swap", "swapCommit"}
  /\ previous # None => rpc \in {"swapCommit", "publish"}
  /\ rpc = "same" => current \in {seen, None}
  /\ rpc = "sameCommit" => current = seen
  /\ rpc = "swapCommit" => current = previous

\* A deployment that is prepared and not yet served.
Prepared(d) ==
  /\ config[d] # None /\ bound[d] /\ ~inShutdown[d]
  /\ serve[d] = "none" /\ drain[d] = "none"

\* A deployment that was served and that nobody is draining yet.
Served(d) ==
  /\ config[d] # None /\ ~inShutdown[d]
  /\ serve[d] # "none" /\ drain[d] = "none"

\* The life of a deployment.
LifeInv ==
  \A d \in Deployment :
    /\ config[d] = None => ~bound[d] /\ ~inShutdown[d] /\ serve[d] = "none"
    /\ serve[d] = "none" => ~inShutdown[d] /\ drain[d] = "none" /\ conns[d] = {}
    /\ drain[d] = "spawned" => ~inShutdown[d]
    /\ drain[d] \in {"draining", "done"} => inShutdown[d]
    /\ serve[d] = "spawned" => bound[d]
    /\ serve[d] \in {"failed", "publish", "done"} => ~bound[d]
    /\ serve[d] = "serving" => (bound[d] <=> ~inShutdown[d])

\* Which deployment is whose.
OwnerInv ==
  /\ CurrentServes
  /\ current # None => config[current] # None
  /\ pc \in {"update", "commit"} =>
       Prepared(dep) /\ config[dep] = startCfg
  /\ pc = "publish" =>
       /\ serve[dep] # "none"
       /\ current = dep \/ ~bound[dep]
  /\ pc = "close" => Served(dep)
  /\ pc = "drain" => inShutdown[dep] /\ drain[dep] = "none"
  /\ rpc \in {"swap", "swapCommit"} =>
       Prepared(next) /\ config[next] = cfg
  /\ seen # None => config[seen] # None
  /\ rpc = "publish" /\ previous # None =>
       Served(previous) /\ current # previous

\* Open listeners and their ports.
PortInv ==
  /\ \A d, e \in Deployment : bound[d] /\ bound[e] /\ d # e => AddressOf(d) # AddressOf(e)
  /\ current # None =>
       \A d \in Deployment :
         bound[d] /\ d # current => AddressOf(d) # AddressOf(current)
  /\ rpc \in {"same", "sameCommit"} => AddressOf(seen) = PortOf[cfg]
  /\ rpc \in {"bind", "swap", "swapCommit"} /\ current # None =>
       AddressOf(current) # PortOf[cfg]

\* The snapshot, also while it is being swapped under mu.
SnapshotInv ==
  /\ SnapshotCoherent
  /\ pc = "commit" => runtime = startCfg
  /\ rpc \in {"sameCommit", "swapCommit"} => runtime = cfg

\* Requests in progress on deployments that are shut down.
DrainInv ==
  \A d \in Deployment :
    /\ drain[d] = "done" => conns[d] = {}
    /\ inShutdown[d] /\ drain[d] = "none" =>
         \/ pc = "drain" /\ d = dep
         \/ pc \in {"wait", "done", "exited"} /\ conns[d] = {}

\* What the tray shows, until the next snapshot is in force and not yet published.
StatusInv ==
  /\ pc \notin StartPC /\ rpc # "publish" /\ current # None
     /\ status.state \in {"running", "config_error"} =>
       status.address = AddressOf(current) /\ status.models = config[current]
  /\ pc = "publish" => runtime = startCfg
  /\ rpc = "publish" => runtime = cfg
  /\ rpc = "report" => current \in {seen, None}

IInv ==
  /\ TypeOK /\ LockInv /\ MainInv /\ ReloadInv /\ LifeInv
  /\ OwnerInv /\ PortInv /\ SnapshotInv /\ NoLeakedListener /\ StoppedIsQuiet
  /\ DrainInv /\ StatusInv
=============================================================================
