-------------------------------- MODULE Proxy --------------------------------
(***************************************************************************)
(* The program that serves: the controller of internal/app and the         *)
(* requests of internal/proxy, joined as they are in the code.             *)
(*                                                                         *)
(* They share handler.runtime and the log level, and nothing else: the     *)
(* controller stores them while it holds c.mu, request goroutines load     *)
(* them whenever they get to it.  In Handler anything may be stored at any *)
(* moment; here only what Start and Reload store.  In Controller clients   *)
(* may come and go; here they come over the connections of a listener that *)
(* has begun to serve, and run until the process ends, whether the         *)
(* listener they came by is still open or not.                             *)
(*                                                                         *)
(* A configuration stands for the snapshot buildRuntime makes of it.       *)
(***************************************************************************)
EXTENDS Handler

CONSTANTS
  Port,        \* loopback ports
  PortOf,      \* server.port of each configuration
  Deployment,  \* identities for deployments
  Conn         \* connections the controller counts

VARIABLES
  current, stopping, reloadMu, mu, status,            \* the controller's, as there
  config, bound, inShutdown, serve, drain, conns,
  main,                                               \* its pc
  startCfg, dep, rpc, cfg, seen, next, previous

C == INSTANCE Controller WITH Config <- Snapshot, DefaultLevel <- "info", pc <- main

requests == <<pc, req, snap, answer, sent, line>>
own == <<current, stopping, reloadMu, mu, status, config, bound, inShutdown, serve,
         drain, conns, main, startCfg, dep, rpc, cfg, seen, next, previous>>
proxyVars == <<vars, own>>

-----------------------------------------------------------------------------
ProxyInit == Init /\ C!Init

\* The process has not ended.
Running == main # "exited"

\* http.Server.Serve has been called: it has accepted connections, which outlive its
\* listener for as long as they are kept alive.
Accepting == \E d \in Deployment : serve[d] \notin {"none", "spawned"}

RequestArrives(r, q) ==
  /\ Running /\ Accepting
  /\ Arrive(r, q)
  /\ UNCHANGED own

RequestSteps(r) ==
  /\ Running
  /\ ServeHTTP(r) \/ ReadBody(r) \/ RoundTrip(r) \/ CopyEnds(r)
  /\ UNCHANGED own

\* A step of the controller.  swapping says that c.mu is held between the two stores,
\* inForce records the snapshot stored first.
ControllerSteps ==
  /\ C!Next
  /\ swapping' = (mu' # C!Free)
  /\ inForce' = [r \in Request |-> IF swapping' /\ ~swapping /\ InFlight(r)
                                   THEN inForce[r] \cup {runtime'} ELSE inForce[r]]
  /\ UNCHANGED requests

ProxyNext ==
  \/ \E r \in Request : RequestSteps(r) \/ \E q \in Inbound : RequestArrives(r, q)
  \/ ControllerSteps

\* The controller's fairness and the handler's, while the process lasts.
ProxyFairness ==
  /\ C!Fairness
  /\ \A r \in Request : /\ WF_proxyVars(RequestSteps(r) /\ ServeHTTP(r))
                        /\ WF_proxyVars(RequestSteps(r) /\ RoundTrip(r))

ProxySpec == ProxyInit /\ [][ProxyNext]_proxyVars /\ ProxyFairness

-----------------------------------------------------------------------------
(* Properties of the whole. *)

\* No client ever gets the service_unavailable of a handler without a snapshot: no
\* listener is served before the first one is in force, and none is ever taken away.
\* Every answer and every forwarded request is the work of a configuration.
AlwaysConfigured ==
  \A r \in Request :
    /\ None \notin inForce[r]
    /\ answer[r] # None => answer[r].code # "service_unavailable"

\* The snapshot and the log level disagree only while Start or Reload is between the
\* two stores: a request logged at any other moment is logged at the level of the
\* configuration in force.
LevelLagsOnlyInSwap ==
  [][ \A r \in Request :
        line'[r] # line[r] /\ mu = C!Free =>
          runtime # None /\ level = LevelOf[runtime] ]_proxyVars

=============================================================================
