----------------------------- MODULE ProxyProofs -----------------------------
(***************************************************************************)
(* Proofs about Proxy: the controller and the requests together take no    *)
(* step that Controller or Handler forbids, so that what is proved of each *)
(* holds of the program, for every set of configurations and requests.     *)
(***************************************************************************)
EXTENDS Proxy, HandlerProofs

CP == INSTANCE ControllerProofs WITH Config <- Snapshot, DefaultLevel <- "info", pc <- main

\* Every configuration has a port, and nil is neither a port nor a deployment.
Wiring == PortOf \in [Snapshot -> Port] /\ None \notin Port \cup Deployment

\* The handler's and the controller's assumptions and Wiring are all that the proofs
\* about the controller assume.
LEMMA ControllerAssumptions ==
  ASSUME Wiring
  PROVE  /\ PortOf \in [Snapshot -> Port]
         /\ LevelOf \in [Snapshot -> Level] /\ "info" \in Level
         /\ None \notin Snapshot \cup Port \cup Deployment
  BY SnapshotAssumption, NoneAssumption DEF Wiring, Level

LEMMA ControllerInit ==
  ASSUME Wiring, C!Init
  PROVE  CP!IInv
<1>1. CP!Init => CP!IInv
  BY ControllerAssumptions, CP!InitIInv
<1>2. CP!Init
  BY DEF C!Init, CP!Init, C!Free, CP!Free, C!Status, CP!Status
<1> QED
  BY <1>1, <1>2

\* The controller of Proxy is the one the proofs are about.
LEMMA SameController == [C!Next]_(C!vars) <=> [CP!Next]_(CP!vars)
<1>1. UNCHANGED C!vars <=> UNCHANGED CP!vars
  BY DEF C!vars, CP!vars
<1>2. C!Start <=> CP!Start
  BY Zenon
     DEF C!Start, CP!Start, C!StartConfigFails, CP!StartConfigFails, C!StartLoad,
         CP!StartLoad, C!StartListenFails, CP!StartListenFails, C!StartListen,
         CP!StartListen, C!StartUpdate, CP!StartUpdate, C!StartCommit, CP!StartCommit,
         C!StartPublish, CP!StartPublish, C!Publish, CP!Publish, C!PublishRunning,
         CP!PublishRunning, C!Status, CP!Status, C!PrepareDeployment,
         CP!PrepareDeployment, C!PortFree, CP!PortFree, C!AddressOf, CP!AddressOf,
         C!InstallDeployment, CP!InstallDeployment, C!Unlock, CP!Unlock, C!Free,
         CP!Free, C!service, CP!service, C!locks, CP!locks, C!servers, CP!servers,
         C!main, CP!main, C!locals, CP!locals, C!reload, CP!reload
<1>3. C!Quit \/ C!Shutdown \/ C!Exit <=> CP!Quit \/ CP!Shutdown \/ CP!Exit
  BY Zenon
     DEF C!Quit, CP!Quit, C!Shutdown, CP!Shutdown, C!ShutdownLock, CP!ShutdownLock,
         C!ShutdownLocks, CP!ShutdownLocks, C!ShutdownClose, CP!ShutdownClose,
         C!ShutdownDrain, CP!ShutdownDrain, C!ShutdownFinish, CP!ShutdownFinish,
         C!ServersDone, CP!ServersDone, C!Exit, CP!Exit, C!BeginShutdown,
         CP!BeginShutdown, C!EndShutdown, CP!EndShutdown, C!Publish, CP!Publish,
         C!Status, CP!Status, C!ReloadEnds, CP!ReloadEnds, C!Free, CP!Free, C!service,
         CP!service, C!locks, CP!locks, C!servers, CP!servers, C!main, CP!main,
         C!locals, CP!locals, C!reload, CP!reload
<1>4. C!ReloadLock \/ C!ReloadStep <=> CP!ReloadLock \/ CP!ReloadStep
  BY Zenon
     DEF C!ReloadLock, CP!ReloadLock, C!ReloadStep, CP!ReloadStep, C!ReloadLoadFails,
         CP!ReloadLoadFails, C!ReloadLoad, CP!ReloadLoad, C!ReloadStopping,
         CP!ReloadStopping, C!ReloadCheck, CP!ReloadCheck, C!ReloadSame, CP!ReloadSame,
         C!ReloadSameCommit, CP!ReloadSameCommit, C!ReloadListenFails,
         CP!ReloadListenFails, C!ReloadListen, CP!ReloadListen, C!ReloadSwap,
         CP!ReloadSwap, C!ReloadSwapCommit, CP!ReloadSwapCommit, C!ReloadPublish,
         CP!ReloadPublish, C!ReloadFail, CP!ReloadFail, C!ReloadReport, CP!ReloadReport,
         C!ReloadEnds, CP!ReloadEnds, C!Publish, CP!Publish, C!PublishRunning,
         CP!PublishRunning, C!Status, CP!Status, C!FailureStatus, CP!FailureStatus,
         C!PrepareDeployment, CP!PrepareDeployment, C!PortFree, CP!PortFree,
         C!AddressOf, CP!AddressOf, C!InstallDeployment, CP!InstallDeployment, C!Unlock,
         CP!Unlock, C!Free, CP!Free, C!StartPC, CP!StartPC, C!SamePort, CP!SamePort,
         C!RecordConfig, CP!RecordConfig, C!Replaced, CP!Replaced, C!service,
         CP!service, C!locks, CP!locks, C!servers, CP!servers, C!main, CP!main,
         C!locals, CP!locals, C!reload, CP!reload
<1>5. ASSUME NEW d \in Deployment
      PROVE  /\ C!ServeStep(d) <=> CP!ServeStep(d)
             /\ C!DrainStep(d) <=> CP!DrainStep(d)
             /\ C!Environment(d) <=> CP!Environment(d)
  BY Zenon
     DEF C!ServeStep, CP!ServeStep, C!ServeStart, CP!ServeStart, C!ServeRefused,
         CP!ServeRefused, C!ServeClosed, CP!ServeClosed, C!ServeLost, CP!ServeLost,
         C!IsCurrent, CP!IsCurrent, C!ServePublish, CP!ServePublish, C!DrainStep,
         CP!DrainStep, C!DrainClose, CP!DrainClose, C!DrainReturn, CP!DrainReturn,
         C!BeginShutdown, CP!BeginShutdown, C!EndShutdown, CP!EndShutdown,
         C!Environment, CP!Environment, C!ServeFail, CP!ServeFail, C!ConnOpen,
         CP!ConnOpen, C!ConnClose, CP!ConnClose, C!Publish, CP!Publish, C!Status,
         CP!Status, C!AddressOf, CP!AddressOf, C!Free, CP!Free, C!service, CP!service,
         C!locks, CP!locks, C!servers, CP!servers, C!main, CP!main, C!locals, CP!locals,
         C!reload, CP!reload
<1>6. C!Terminated <=> CP!Terminated
  BY <1>1, Zenon DEF C!Terminated, CP!Terminated, C!vars, CP!vars
<1> QED
  BY <1>1, <1>2, <1>3, <1>4, <1>5, <1>6, Zenon DEF C!Next, CP!Next

LEMMA ControllerNext ==
  ASSUME Wiring, CP!IInv, [C!Next]_(C!vars)
  PROVE  CP!IInv'
<1>1. [CP!Next]_(CP!vars)
  BY SameController, Zenon
<1> QED
  BY <1>1, ControllerAssumptions, CP!NextIInv

LEMMA ControllerFeeds ==
  ASSUME Wiring, CP!IInv, [C!Next]_(C!vars)
  PROVE  \/ UNCHANGED <<runtime, level, mu>>
         \/ mu = "free" /\ mu' # "free" /\ runtime' \in Snapshot /\ UNCHANGED level
         \/ mu # "free" /\ mu' = "free" /\ level' = LevelOf[runtime] /\ UNCHANGED runtime
<1>1. [CP!Next]_(CP!vars)
  BY SameController, Zenon
<1> QED
  BY <1>1, ControllerAssumptions, CP!FeedStep DEF CP!Free

LEMMA ControllerServes ==
  ASSUME Wiring, CP!IInv, CP!ServesSnapshot, [C!Next]_(C!vars)
  PROVE  CP!ServesSnapshot'
<1>1. [CP!Next]_(CP!vars)
  BY SameController, Zenon
<1> QED
  BY <1>1, ControllerAssumptions, CP!ServesStep

-----------------------------------------------------------------------------
(* Every step is a step of both. *)

\* A request's step is invisible to the controller.
LEMMA RequestsLeaveAlone ==
  ASSUME NEW r \in Request,
         RequestSteps(r) \/ \E q \in Inbound : RequestArrives(r, q)
  PROVE  UNCHANGED <<controller, own>>
<1>1. CASE \E q \in Inbound : RequestArrives(r, q)
  BY <1>1 DEF RequestArrives, Arrive
<1>2. CASE RequestSteps(r)
  BY <1>2 DEF RequestSteps, ServeHTTP, Healthz, Unavailable, Admit, LogRequest, ReadBody,
     RoundTrip, UpstreamAnswers, UpstreamFails, CopyEnds
<1> QED
  BY <1>1, <1>2

LEMMA IsControllerStep == [ProxyNext]_proxyVars => [C!Next]_(C!vars)
<1>1. ASSUME NEW r \in Request,
             RequestSteps(r) \/ \E q \in Inbound : RequestArrives(r, q)
      PROVE  UNCHANGED C!vars
  BY <1>1, RequestsLeaveAlone DEF C!vars, own, controller
<1>2. CASE UNCHANGED proxyVars
  BY <1>2 DEF proxyVars, vars, own, C!vars
<1> QED
  BY <1>1, <1>2, Zenon DEF ProxyNext, ControllerSteps

\* swapping mirrors the mutex, and the history holds what is in force.
Mirror == swapping <=> mu # "free"

\* What the controller stores is what Handler lets be stored.
LEMMA IsHandlerStep ==
  ASSUME Wiring, CP!IInv, TypeOK, Mirror, [ProxyNext]_proxyVars
  PROVE  [Next]_vars /\ Mirror'
<1>1. ASSUME NEW r \in Request,
             RequestSteps(r) \/ \E q \in Inbound : RequestArrives(r, q)
      PROVE  Next /\ Mirror'
  <2>1. Next
    BY <1>1 DEF RequestSteps, RequestArrives, Next
  <2>2. Mirror'
    BY <1>1, RequestsLeaveAlone DEF controller, own, Mirror
  <2> QED
    BY <2>1, <2>2
<1>2. CASE UNCHANGED proxyVars
  BY <1>2 DEF proxyVars, own, Mirror, vars
<1>3. CASE ControllerSteps
  <2>1. Mirror' /\ UNCHANGED requests
    BY <1>3 DEF ControllerSteps, Mirror, C!Free
  <2>2. \/ UNCHANGED <<runtime, level, mu>>
        \/ mu = "free" /\ mu' # "free" /\ runtime' \in Snapshot /\ UNCHANGED level
        \/ mu # "free" /\ mu' = "free" /\ level' = LevelOf[runtime] /\ UNCHANGED runtime
    BY <1>3, ControllerFeeds DEF ControllerSteps
  <2>3. inForce \in [Request -> SUBSET Maybe(Snapshot)]
    BY DEF TypeOK
  <2>4. CASE UNCHANGED <<runtime, level, mu>>
    <3>1. swapping' = swapping
      BY <1>3, <2>4 DEF ControllerSteps, Mirror, C!Free, TypeOK
    <3>2. inForce' = inForce
      BY <1>3, <2>3, <3>1 DEF ControllerSteps
    <3> QED
      BY <2>1, <2>4, <3>1, <3>2 DEF requests, vars
  <2>5. CASE mu = "free" /\ mu' # "free" /\ runtime' \in Snapshot /\ UNCHANGED level
    <3>1. swapping = FALSE /\ swapping' = TRUE
      BY <1>3, <2>5 DEF ControllerSteps, Mirror, C!Free, TypeOK
    <3>2. inForce' = [r \in Request |-> IF InFlight(r) THEN inForce[r] \cup {runtime'}
                                        ELSE inForce[r]]
      BY <1>3, <3>1 DEF ControllerSteps
    <3>3. Update(runtime')
      BY <2>1, <2>5, <3>1, <3>2 DEF requests, Update
    <3> QED
      BY <2>1, <2>5, <3>3 DEF Next
  <2>6. CASE mu # "free" /\ mu' = "free" /\ level' = LevelOf[runtime] /\ UNCHANGED runtime
    <3>1. swapping = TRUE /\ swapping' = FALSE
      BY <1>3, <2>6 DEF ControllerSteps, Mirror, C!Free, TypeOK
    <3>2. inForce' = inForce
      BY <1>3, <2>3, <3>1 DEF ControllerSteps
    <3>3. SetLevel
      BY <2>1, <2>6, <3>1, <3>2 DEF requests, SetLevel
    <3> QED
      BY <2>1, <3>3 DEF Next
  <2> QED
    BY <2>2, <2>4, <2>5, <2>6
<1> QED
  BY <1>1, <1>2, <1>3 DEF ProxyNext

-----------------------------------------------------------------------------
(* The invariant of the whole. *)

\* A request that arrived found a snapshot, has seen nothing but snapshots in force, and
\* is not answered as if there were none.
WellServed(r) ==
  /\ pc[r] # "idle" => runtime # None
  /\ None \notin inForce[r]
  /\ answer[r] \in Maybe(Configured)

ProxyInv ==
  /\ CP!IInv /\ CP!ServesSnapshot
  /\ IInv /\ Mirror
  /\ \A r \in Request : WellServed(r)

LEMMA ListingIsConfigured ==
  ASSUME NEW s \in Snapshot
  PROVE  Listing(s) \in Configured
BY ListingIsTyped DEF Listing, Configured

\* The steps of a request keep it well served.
LEMMA RequestStaysServed ==
  ASSUME ProxyInv, NEW r \in Request,
         RequestSteps(r) \/ \E q \in Inbound : RequestArrives(r, q)
  PROVE  \A r1 \in Request : WellServed(r1)'
<1>. USE DEF ProxyInv, IInv
<1>1. runtime' = runtime /\ runtime # None /\ runtime \in Snapshot
  <2>1. runtime' = runtime
    BY RequestsLeaveAlone DEF controller
  <2>2. CASE RequestSteps(r)
    <3>1. pc[r] # "idle"
      BY <2>2 DEF RequestSteps, ServeHTTP, Healthz, Unavailable, Admit, LogRequest, ReadBody,
         RoundTrip, UpstreamAnswers, UpstreamFails, CopyEnds
    <3> QED
      BY <2>1, <3>1 DEF WellServed, TypeOK, Maybe
  <2>3. CASE \E q \in Inbound : RequestArrives(r, q)
    BY <2>1, <2>3 DEF RequestArrives, Accepting, CP!ServesSnapshot, TypeOK, Maybe
  <2> QED
    BY <2>2, <2>3
<1>2. ASSUME NEW r1 \in Request
      PROVE  None \notin inForce'[r1]
  <2>1. CASE \E q \in Inbound : RequestArrives(r, q)
    BY <1>1, <2>1 DEF RequestArrives, Arrive, WellServed, TypeOK
  <2>2. CASE RequestSteps(r)
    <3>1. inForce' = inForce
      BY <2>2 DEF RequestSteps, ServeHTTP, Healthz, Unavailable, Admit, LogRequest, ReadBody,
         RoundTrip, UpstreamAnswers, UpstreamFails, CopyEnds
    <3> QED
      BY <3>1 DEF WellServed
  <2> QED
    BY <2>1, <2>2
<1>3. ASSUME NEW r1 \in Request
      PROVE  answer'[r1] \in Maybe(Configured)
  <2>1. CASE answer'[r1] = answer[r1]
    BY <2>1 DEF WellServed
  <2>2. CASE r1 = r /\ Healthz(r)
    <3>1. Answer(405, "method_not_allowed") \in Configured
      BY DEF Answer, AnswerType, Code, Configured
    <3> QED
      BY <1>1, <2>2, <3>1, ListingIsConfigured DEF Healthz, Reply, TypeOK, Maybe
  <2>3. ~Unavailable(r)
    BY <1>1 DEF Unavailable
  <2>4. CASE r1 = r /\ Admit(r)
    BY <1>1, <2>1, <2>4, AdmissionLemma, ListingIsConfigured
       DEF Admit, Reply, TypeOK, Maybe
  <2>5. CASE r1 = r /\ ReadBody(r)
    <3>1. req[r] \in InboundType
      BY <2>5 DEF ReadBody, RequestInv, Arrived
    <3>2. Acceptance(req[r], Routing(r)) \in Maybe(Configured)
      BY <3>1, AcceptanceLemma
    <3> QED
      BY <2>1, <2>5, <3>2 DEF ReadBody, Reply, TypeOK
  <2>6. CASE r1 = r /\ UpstreamAnswers(r)
    <3>1. PICK s \in UpstreamStatus : answer'[r] = Answer(s, "")
      BY <2>6 DEF UpstreamAnswers, TypeOK
    <3>2. Answer(s, "") \in Configured
      BY UpstreamAnswerIsTyped
    <3> QED
      BY <2>6, <3>1, <3>2 DEF Maybe
  <2>7. CASE r1 = r /\ UpstreamFails(r)
    <3>1. Answer(504, "upstream_timeout") \in Configured
          /\ Answer(502, "upstream_error") \in Configured
      BY DEF Answer, AnswerType, Code, Configured
    <3> QED
      BY <2>7, <3>1 DEF UpstreamFails, Reply, TypeOK, Maybe
  <2>8. \/ answer'[r1] = answer[r1]
        \/ r1 = r /\ (Healthz(r) \/ Admit(r) \/ ReadBody(r) \/ RoundTrip(r))
    <3>1. CASE Healthz(r) \/ Admit(r) \/ ReadBody(r) \/ RoundTrip(r)
      <4>1. answer' = answer \/ \E a : answer' = [answer EXCEPT ![r] = a]
        <5> HIDE DEF IInv
        <5>1. CASE Healthz(r)
          BY <5>1, ZenonT(60) DEF Healthz, Reply
        <5>2. CASE Admit(r)
          BY <5>2, Zenon DEF Admit, Reply
        <5>3. CASE ReadBody(r)
          BY <5>3, Zenon DEF ReadBody, Reply
        <5>4. CASE UpstreamAnswers(r)
          BY <5>4, Zenon DEF UpstreamAnswers
        <5>5. CASE UpstreamFails(r)
          BY <5>5, ZenonT(60) DEF UpstreamFails, Reply
        <5> QED
          BY <3>1, <5>1, <5>2, <5>3, <5>4, <5>5 DEF RoundTrip
      <4>2. r1 # r => answer'[r1] = answer[r1]
        BY <4>1 DEF TypeOK
      <4> QED
        BY <3>1, <4>2
    <3>2. CASE LogRequest(r) \/ CopyEnds(r) \/ \E q \in Inbound : Arrive(r, q)
      BY <3>2 DEF LogRequest, CopyEnds, Arrive
    <3> QED
      BY <2>3, <3>1, <3>2 DEF RequestSteps, RequestArrives, ServeHTTP
  <2> QED
    BY <2>1, <2>2, <2>4, <2>5, <2>6, <2>7, <2>8 DEF RoundTrip
<1> QED
  BY <1>1, <1>2, <1>3 DEF WellServed

\* The steps of the controller take no snapshot away.
LEMMA ControllerKeepsServed ==
  ASSUME Wiring, ProxyInv, ControllerSteps, NEW r \in Request
  PROVE  WellServed(r)'
<1>. USE DEF ProxyInv, IInv
<1>1. UNCHANGED <<pc, answer>>
  BY DEF ControllerSteps, requests
<1>2. runtime' = runtime \/ runtime' \in Snapshot
  <2>1. [C!Next]_(C!vars)
    BY Zenon DEF ControllerSteps
  <2> QED
    BY <2>1, ControllerFeeds
<1>3. runtime # None => runtime' # None
  BY <1>2, NoneAssumption
<1>4. None \notin inForce'[r]
  <2>1. inForce'[r] = IF swapping' /\ ~swapping /\ InFlight(r)
                      THEN inForce[r] \cup {runtime'} ELSE inForce[r]
    BY DEF ControllerSteps
  <2>2. InFlight(r) => runtime' # None
    BY <1>3 DEF InFlight, WellServed
  <2> QED
    BY <2>1, <2>2 DEF WellServed
<1> QED
  BY <1>1, <1>3, <1>4 DEF WellServed

LEMMA ProxyInitInv == Wiring /\ ProxyInit => ProxyInv
<1> SUFFICES ASSUME Wiring, ProxyInit PROVE ProxyInv
  OBVIOUS
<1>1. CP!IInv /\ IInv
  BY ControllerInit, InitInv DEF ProxyInit
<1>2. CP!ServesSnapshot
  BY DEF ProxyInit, C!Init, CP!ServesSnapshot
<1>3. Mirror /\ \A r \in Request : WellServed(r)
  BY DEF ProxyInit, Init, InitWith, C!Init, C!Free, Mirror, WellServed, Maybe
<1> QED
  BY <1>1, <1>2, <1>3 DEF ProxyInv

LEMMA ProxyNextInv == Wiring /\ ProxyInv /\ [ProxyNext]_proxyVars => ProxyInv'
<1> SUFFICES ASSUME Wiring, ProxyInv, [ProxyNext]_proxyVars PROVE ProxyInv'
  OBVIOUS
<1>1. CP!IInv' /\ CP!ServesSnapshot'
  BY IsControllerStep, ControllerNext, ControllerServes DEF ProxyInv
<1>2. [Next]_vars /\ Mirror'
  BY IsHandlerStep DEF ProxyInv, IInv
<1>3. IInv'
  BY <1>2, NextInv DEF ProxyInv
<1>4. ASSUME NEW r \in Request  PROVE WellServed(r)'
  <2>1. CASE UNCHANGED proxyVars
    BY <2>1 DEF proxyVars, vars, ProxyInv, WellServed
  <2> QED
    BY <2>1, RequestStaysServed, ControllerKeepsServed DEF ProxyNext
<1> QED
  BY <1>1, <1>2, <1>3, <1>4 DEF ProxyInv

-----------------------------------------------------------------------------
(* Theorems. *)

\* The program implements the controller's specification with its fairness: no request
\* disturbs what is proved, and what is checked, of Controller.
THEOREM ImplementsController == ProxySpec => C!Spec
  BY IsControllerStep, PTL DEF ProxySpec, ProxyInit, ProxyFairness, C!Spec

\* The invariants of both parts hold together.
THEOREM WholeInductive == ASSUME Wiring PROVE ProxySpec => []ProxyInv
<1>1. ProxyInit => ProxyInv
  BY ProxyInitInv
<1>2. ProxyInv /\ [ProxyNext]_proxyVars => ProxyInv'
  BY ProxyNextInv
<1> QED
  BY <1>1, <1>2, PTL DEF ProxySpec

\* The controller is one of those Handler allows for: what the requests see of it is
\* Update and SetLevel in turn.
THEOREM ImplementsHandler == ASSUME Wiring PROVE ProxySpec => Init /\ [][Next]_vars
<1>1. ProxyInv /\ [ProxyNext]_proxyVars => [Next]_vars
  BY IsHandlerStep DEF ProxyInv, IInv
<1> QED
  BY <1>1, WholeInductive, PTL DEF ProxySpec, ProxyInit

\* In the running program a request is answered and forwarded as one configuration has
\* it that Start or Reload had put into force during the request.
THEOREM ServedByOneConfiguration ==
  ASSUME Wiring
  PROVE  ProxySpec => [](OneSnapshot /\ ForwardedByOneSnapshot /\ BodyAfterAuthentication)
<1>1. IInv => OneSnapshot /\ ForwardedByOneSnapshot /\ BodyAfterAuthentication
  BY AdmissionLemma DEF IInv, OneSnapshot, ForwardedByOneSnapshot,
     BodyAfterAuthentication, RequestInv, AnsweredByOne, SentByOne, Admitted
<1>2. ProxyInv => IInv
  BY DEF ProxyInv
<1> QED
  BY <1>1, <1>2, WholeInductive, PTL

\* No client is ever told that the proxy has no configuration.
THEOREM NeverUnavailable == ASSUME Wiring PROVE ProxySpec => []AlwaysConfigured
<1>1. ProxyInv => AlwaysConfigured
  BY DEF ProxyInv, WellServed, AlwaysConfigured, Configured, Maybe
<1> QED
  BY <1>1, WholeInductive, PTL

\* A request is logged at the level of the configuration in force, unless it is logged
\* between the two stores of a swap.
THEOREM LevelLags == ASSUME Wiring PROVE ProxySpec => LevelLagsOnlyInSwap
<1> DEFINE Agrees ==
      \A r \in Request :
        line'[r] # line[r] /\ mu = C!Free => runtime # None /\ level = LevelOf[runtime]
<1>1. ProxyInv /\ [ProxyNext]_proxyVars => [Agrees]_proxyVars
  <2> SUFFICES ASSUME ProxyInv, ProxyNext, NEW r \in Request, line'[r] # line[r],
                      mu = C!Free
               PROVE  runtime # None /\ level = LevelOf[runtime]
    OBVIOUS
  <2>1. runtime # None
    <3>1. PICK r1 \in Request :
             RequestSteps(r1) \/ \E q \in Inbound : RequestArrives(r1, q)
      BY DEF ProxyNext, ControllerSteps, requests
    <3>2. RequestSteps(r1)
      BY <3>1 DEF RequestArrives, Arrive
    <3>3. pc[r1] # "idle"
      BY <3>2 DEF RequestSteps, ServeHTTP, Healthz, Unavailable, Admit, LogRequest, ReadBody,
         RoundTrip, UpstreamAnswers, UpstreamFails, CopyEnds
    <3> QED
      BY <3>3 DEF ProxyInv, WellServed
  <2>2. runtime # None => level = LevelOf[runtime]
    BY DEF ProxyInv, CP!IInv, CP!SnapshotInv, CP!SnapshotCoherent, CP!Free, C!Free
  <2> QED
    BY <2>1, <2>2
<1> QED
  BY <1>1, WholeInductive, PTL DEF ProxySpec, LevelLagsOnlyInSwap

=============================================================================
