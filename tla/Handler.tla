------------------------------- MODULE Handler -------------------------------
(***************************************************************************)
(* internal/proxy/handler.go: the life of a request, from net/http calling  *)
(* ServeHTTP to the deferred log line, while the controller replaces the    *)
(* snapshot underneath.                                                     *)
(*                                                                         *)
(* A request waits in three places: for its body, for the upstream's        *)
(* headers and for the end of the upstream's body.  Between them ServeHTTP  *)
(* touches only its own variables, so the code from one wait to the next is *)
(* one action.  What other goroutines can change meanwhile is               *)
(* handler.runtime and the log level, two atomics the controller stores one *)
(* after the other.                                                         *)
(*                                                                         *)
(* A request is what ServeHTTP can tell about it: see Inbound.              *)
(***************************************************************************)
EXTENDS Integers, Sequences, FiniteSetsExt

CONSTANTS
  Request,        \* identities of requests
  Snapshot,       \* runtime snapshots, named by the configuration they are from
  Key,            \* API keys, local ones and upstreams'
  Blanked,        \* those with a blank inside, which validateSecret allows
  Model,          \* model names, public ones and upstreams'
  Upstream,       \* upstream names
  LocalKey,       \* server.api_key of each snapshot
  Routes,         \* routing table of each snapshot
  LevelOf,        \* logging.level of each snapshot
  Inbound,        \* the requests a client may send
  UpstreamStatus, \* statuses an upstream may answer with
  None            \* Go's nil

Level == {"debug", "info", "warn", "error"}
Rank == [debug |-> 0, info |-> 1, warn |-> 2, error |-> 3]

\* router.Route of a validated configuration: a key if and only if it replaces.
Route == [model : Model, upstream : Upstream, mode : {"replace"}, key : Key,
          skipTLS : BOOLEAN]
    \cup [model : Model, upstream : Upstream, mode : {"none"}, key : {None},
          skipTLS : BOOLEAN]

LocateError == {"invalid_json", "missing_model", "invalid_model", "duplicate_model"}

\* error_code, empty when the handler has no objection
Code == LocateError \cup
  {"", "service_unavailable", "method_not_allowed", "invalid_api_key",
   "websocket_not_supported", "unsupported_media_type", "request_body_too_large",
   "unsupported_content_encoding", "unknown_model", "body_integrity_not_supported",
   "upstream_timeout", "upstream_error"}

\* A credential header: absent, repeated, not of the expected form, or a key.
Header == Key \cup {"absent", "many", "malformed"}

\* wire and gzip say how the body reads, raw and decompressed; doc is what
\* locateTopLevelModel finds in it, a name or an error.
InboundType ==
  [path : {"health", "models", "other"}, get : BOOLEAN,
   bearer : Header, apiKey : Header, upgrade : BOOLEAN, json : BOOLEAN,
   wire : {"ok", "declaredLarge", "large", "broken"},
   encoding : {"identity", "gzip", "other"}, gzip : {"ok", "corrupt", "large"},
   doc : Model \cup LocateError, integrity : BOOLEAN]

Maybe(S) == S \cup {None}

\* What a client gets back, and what an upstream is sent.
AnswerType == [status : 200 .. 599, code : Code, models : SUBSET Model]

SentType == [upstream : Upstream, verifyTLS : BOOLEAN, model : Model,
             rewritten : BOOLEAN, encoding : {"identity", "gzip", "other"},
             bearer : Header, apiKey : Header]

ASSUME SnapshotAssumption ==
  /\ LocalKey \in [Snapshot -> Key] /\ LevelOf \in [Snapshot -> Level]
  /\ \A s \in Snapshot : /\ DOMAIN Routes[s] \subseteq Model
                          /\ Routes[s] \in [DOMAIN Routes[s] -> Route]
ASSUME NoneAssumption ==
  None \notin Snapshot \cup AnswerType \cup SentType \cup InboundType
ASSUME InboundAssumption ==
  /\ Inbound \subseteq InboundType
  /\ Model \cap LocateError = {} /\ Key \cap {"absent", "many", "malformed"} = {}
ASSUME StatusAssumption == UpstreamStatus \subseteq 200 .. 599

VARIABLES
  runtime,   \* h.runtime
  level,     \* the logger's level
  swapping,  \* the controller is between Update and SetLevel (it holds c.mu)
  pc,        \* where ServeHTTP is
  req,       \* the request
  snap,      \* its local variable runtime
  answer,    \* status, error code and model list sent to the client
  sent,      \* what was forwarded
  line,      \* severity of its log line, or "dropped" below the level
  inForce    \* history: the snapshots in force since the request arrived

controller == <<runtime, level, swapping>>
vars == <<runtime, level, swapping, pc, req, snap, answer, sent, line, inForce>>

-----------------------------------------------------------------------------
PC == {"idle", "load", "read", "forward", "copy", "log", "done"}

InitWith(s, l) ==
  /\ runtime = s /\ level = l /\ swapping = FALSE
  /\ pc = [r \in Request |-> "idle"]
  /\ req = [r \in Request |-> None]
  /\ snap = [r \in Request |-> None]
  /\ answer = [r \in Request |-> None]
  /\ sent = [r \in Request |-> None]
  /\ line = [r \in Request |-> None]
  /\ inForce = [r \in Request |-> {}]

\* New with a nil runtime, and logging.New.
Init == InitWith(None, "info")

Answer(status, code) == [status |-> status, code |-> code, models |-> {}]

\* The model list of /v1/models, and the count /healthz takes from it.
Listing(s) == [status |-> 200, code |-> "", models |-> DOMAIN Routes[s]]

\* A chain of early returns: the answer of the first test that fails, or None.
Check(fails, status, code) == [fails |-> fails, answer |-> Answer(status, code)]

FirstFailing(checks) ==
  LET failing == {i \in DOMAIN checks : checks[i].fails}
  IN IF failing = {} THEN None ELSE checks[Min(failing)].answer

\* auth.Authenticate: some credential, and every one present is the local key.
\* strings.Fields splits a Bearer key that has a blank inside.
Authenticates(q, key) ==
  /\ {q.bearer, q.apiKey} # {"absent"}
  /\ q.bearer \in {"absent", key} \ Blanked
  /\ q.apiKey \in {"absent", key}

\* Variant: credentials are not tested before the body is read.
AdmissionLate(q, s) == FirstFailing(<<
  Check(q.path = "models" /\ ~q.get, 405, "method_not_allowed"),
  Check(q.path = "other" /\ q.upgrade, 400, "websocket_not_supported"),
  Check(q.path = "other" /\ ~q.json, 415, "unsupported_media_type") >>)

\* The tests before the body is read.
Admission(q, s) == FirstFailing(<<
  Check(~Authenticates(q, LocalKey[s]), 401, "invalid_api_key"),
  Check(q.path = "models" /\ ~q.get, 405, "method_not_allowed"),
  Check(q.path = "other" /\ q.upgrade, 400, "websocket_not_supported"),
  Check(q.path = "other" /\ ~q.json, 415, "unsupported_media_type") >>)

\* replaceModel is needed: the public name is not the upstream's.
Renamed(q, s) == q.doc \in DOMAIN Routes[s] /\ Routes[s][q.doc].model # q.doc

\* Variant: a rewritten body may keep its digest headers.
AcceptanceUnsigned(q, s) == FirstFailing(<<
  Check(q.wire \in {"declaredLarge", "large"}, 413, "request_body_too_large"),
  Check(q.wire = "broken", 400, "invalid_json"),
  Check(q.encoding = "other", 415, "unsupported_content_encoding"),
  Check(q.encoding = "gzip" /\ q.gzip = "corrupt", 400, "invalid_json"),
  Check(q.encoding = "gzip" /\ q.gzip = "large", 413, "request_body_too_large"),
  Check(q.doc \in LocateError, 400, q.doc),
  Check(q.doc \notin DOMAIN Routes[s], 404, "unknown_model") >>)

\* The tests after it: readRequestBody, locateTopLevelModel, Resolve, digests.
Acceptance(q, s) == FirstFailing(<<
  Check(q.wire \in {"declaredLarge", "large"}, 413, "request_body_too_large"),
  Check(q.wire = "broken", 400, "invalid_json"),
  Check(q.encoding = "other", 415, "unsupported_content_encoding"),
  Check(q.encoding = "gzip" /\ q.gzip = "corrupt", 400, "invalid_json"),
  Check(q.encoding = "gzip" /\ q.gzip = "large", 413, "request_body_too_large"),
  Check(q.doc \in LocateError, 400, q.doc),
  Check(q.doc \notin DOMAIN Routes[s], 404, "unknown_model"),
  Check(Renamed(q, s) /\ q.integrity, 400, "body_integrity_not_supported") >>)

\* Variant: the header the client used is not kept.
CredentialBoth(route, header) == IF route.mode = "none" THEN "absent" ELSE route.key

\* Variant: auth.mode none is not looked at.
CredentialAnyMode(route, header) == IF header = "absent" THEN "absent" ELSE route.key

\* auth.Apply on one header: the local key goes, the route's comes in its place.
Credential(route, header) ==
  IF route.mode = "none" \/ header = "absent" THEN "absent" ELSE route.key

\* What the upstream receives for q routed by s.
Forwarded(q, s) ==
  LET route == Routes[s][q.doc]
  IN [upstream |-> route.upstream, verifyTLS |-> ~route.skipTLS,
      model |-> route.model, rewritten |-> Renamed(q, s), encoding |-> q.encoding,
      bearer |-> Credential(route, q.bearer), apiKey |-> Credential(route, q.apiKey)]

Severity(status) ==
  IF status >= 500 THEN "error" ELSE IF status >= 400 THEN "warn" ELSE "info"

-----------------------------------------------------------------------------
Goto(r, label) == pc' = [pc EXCEPT ![r] = label]

Reply(r, a) ==
  /\ answer' = [answer EXCEPT ![r] = a]
  /\ Goto(r, "log")

\* net/http calls ServeHTTP in a goroutine of its own.
Arrive(r, q) ==
  /\ pc[r] = "idle"
  /\ Goto(r, "load")
  /\ req' = [req EXCEPT ![r] = q]
  /\ inForce' = [inForce EXCEPT ![r] = {runtime}]
  /\ UNCHANGED <<controller, snap, answer, sent, line>>

\* /healthz is public and looks at the snapshot only for a GET.
Healthz(r) ==
  /\ pc[r] = "load" /\ req[r].path = "health"
  /\ IF ~req[r].get
     THEN /\ Reply(r, Answer(405, "method_not_allowed"))
          /\ UNCHANGED snap
     ELSE /\ Reply(r, IF runtime = None THEN Answer(503, "service_unavailable")
                      ELSE Listing(runtime))
          /\ snap' = [snap EXCEPT ![r] = runtime]
  /\ UNCHANGED <<controller, req, sent, line, inForce>>

Unavailable(r) ==
  /\ pc[r] = "load" /\ req[r].path # "health" /\ runtime = None
  /\ Reply(r, Answer(503, "service_unavailable"))
  /\ UNCHANGED <<controller, req, snap, sent, line, inForce>>

\* h.runtime.Load() and the code up to readRequestBody.
Admit(r) ==
  LET q == req[r]  refusal == Admission(q, runtime) IN
  /\ pc[r] = "load" /\ q.path # "health" /\ runtime # None
  /\ snap' = [snap EXCEPT ![r] = runtime]
  /\ IF refusal # None THEN Reply(r, refusal)
     ELSE IF q.path = "models" THEN Reply(r, Listing(runtime))
     ELSE Goto(r, "read") /\ UNCHANGED answer
  /\ UNCHANGED <<controller, req, sent, line, inForce>>

\* Variant: the routing table is read again after the body.
RoutingReread(r) == runtime

\* runtime.Table of the snapshot loaded on arrival.
Routing(r) == snap[r]

\* readRequestBody returns, when the client lets it, and the code up to the
\* reverse proxy's call of the upstream.
ReadBody(r) ==
  LET q == req[r]  s == Routing(r)  refusal == Acceptance(q, s) IN
  /\ pc[r] = "read"
  /\ IF refusal # None
     THEN Reply(r, refusal) /\ UNCHANGED sent
     ELSE /\ sent' = [sent EXCEPT ![r] = Forwarded(q, s)]
          /\ Goto(r, "forward")
          /\ UNCHANGED answer
  /\ UNCHANGED <<controller, req, snap, line, inForce>>

\* The upstream's headers arrive.
UpstreamAnswers(r) ==
  /\ pc[r] = "forward"
  /\ \E status \in UpstreamStatus :
        answer' = [answer EXCEPT ![r] = Answer(status, "")]
  /\ Goto(r, "copy")
  /\ UNCHANGED <<controller, req, snap, sent, line, inForce>>

\* ErrorHandler: a timeout (dial, TLS, response headers), or any other failure,
\* the client going away included.
UpstreamFails(r) ==
  /\ pc[r] = "forward"
  /\ \/ Reply(r, Answer(504, "upstream_timeout"))
     \/ Reply(r, Answer(502, "upstream_error"))
  /\ UNCHANGED <<controller, req, snap, sent, line, inForce>>

\* The response has been copied, or the copy broke off (ErrAbortHandler).
CopyEnds(r) ==
  /\ pc[r] = "copy"
  /\ Goto(r, "log")
  /\ UNCHANGED <<controller, req, snap, answer, sent, line, inForce>>

\* The deferred function: one line, filtered by the level of this moment.
LogRequest(r) ==
  LET severity == Severity(answer[r].status) IN
  /\ pc[r] = "log"
  /\ line' = [line EXCEPT ![r] = IF Rank[severity] >= Rank[level] THEN severity
                                 ELSE "dropped"]
  /\ Goto(r, "done")
  /\ UNCHANGED <<controller, req, snap, answer, sent, inForce>>

InFlight(r) == pc[r] \notin {"idle", "done"}

\* The controller puts snapshot s into force, under c.mu...
Update(s) ==
  /\ ~swapping
  /\ runtime' = s
  /\ swapping' = TRUE
  /\ inForce' = [r \in Request |-> IF InFlight(r) THEN inForce[r] \cup {s}
                                   ELSE inForce[r]]
  /\ UNCHANGED <<level, pc, req, snap, answer, sent, line>>

\* ... and then its log level.
SetLevel ==
  /\ swapping
  /\ level' = LevelOf[runtime]
  /\ swapping' = FALSE
  /\ UNCHANGED <<runtime, pc, req, snap, answer, sent, line, inForce>>

-----------------------------------------------------------------------------
\* What the goroutine of a request does without waiting for anybody.
ServeHTTP(r) == Healthz(r) \/ Unavailable(r) \/ Admit(r) \/ LogRequest(r)

\* The reverse proxy gets an answer or gives up.
RoundTrip(r) == UpstreamAnswers(r) \/ UpstreamFails(r)

Next ==
  \/ \E r \in Request :
        \/ \E q \in Inbound : Arrive(r, q)
        \/ ServeHTTP(r) \/ ReadBody(r) \/ RoundTrip(r) \/ CopyEnds(r)
  \/ \E s \in Snapshot : Update(s)
  \/ SetLevel

\* A goroutine that can run does run, and the transport bounds the wait for
\* headers (DefaultTransport).  Nothing bounds the two bodies: the server has no
\* ReadTimeout and the transport none for the body, so ReadBody and CopyEnds
\* depend on the client and on the upstream and are not assumed.
Fairness ==
  /\ \A r \in Request : WF_vars(ServeHTTP(r)) /\ WF_vars(RoundTrip(r))
  /\ WF_vars(SetLevel)

Spec == Init /\ [][Next]_vars /\ Fairness

\* The program from the moment it serves: Start has put a snapshot into force.
ServingSpec ==
  /\ \E s \in Snapshot : InitWith(s, LevelOf[s])
  /\ [][Next]_vars /\ Fairness

-----------------------------------------------------------------------------
(* Properties. *)

\* The variables of ServeHTTP and of the handler hold values of their types.
TypeOK ==
  /\ runtime \in Maybe(Snapshot) /\ level \in Level /\ swapping \in BOOLEAN
  /\ pc \in [Request -> PC]
  /\ req \in [Request -> Maybe(InboundType)]
  /\ snap \in [Request -> Maybe(Snapshot)]
  /\ answer \in [Request -> Maybe(AnswerType)]
  /\ sent \in [Request -> Maybe(SentType)]
  /\ line \in [Request -> {None, "dropped", "info", "warn", "error"}]
  /\ inForce \in [Request -> SUBSET Maybe(Snapshot)]

\* What the handler says to q when s, possibly None, is in force throughout; None
\* when it is the upstream's to answer.
Verdict(q, s) ==
  IF q.path = "health" /\ ~q.get THEN Answer(405, "method_not_allowed")
  ELSE IF s = None THEN Answer(503, "service_unavailable")
  ELSE IF q.path = "health" THEN Listing(s)
  ELSE IF Admission(q, s) # None THEN Admission(q, s)
  ELSE IF q.path = "models" THEN Listing(s)
  ELSE Acceptance(q, s)

\* "A request uses the Snapshot acquired at its start even if Reload succeeds while
\* it is in flight" (CONTEXT.md:84): a request the handler answers itself is
\* answered as one snapshot in force during the request would have it, never by
\* the key of one and the table of another.
OneSnapshot ==
  \A r \in Request :
    pc[r] \in {"log", "done"} /\ sent[r] = None =>
      \E s \in inForce[r] : answer[r] = Verdict(req[r], s)

\* What reaches an upstream was admitted and accepted by one snapshot in force
\* during the request, and goes to that snapshot's upstream for the model, under
\* that upstream's model name and key, with TLS checked as that upstream says.
ForwardedByOneSnapshot ==
  \A r \in Request : sent[r] # None =>
    \E s \in inForce[r] \ {None} :
      /\ Verdict(req[r], s) = None
      /\ sent[r] = Forwarded(req[r], s)

\* "A Local API Key never crosses the upstream seam" (CONTEXT.md): a credential
\* leaves only in a header the client used, and is the key some snapshot keeps for
\* the very upstream it is sent to.
KeysStayHome ==
  \A r \in Request : sent[r] # None =>
    LET HasKey(key) == \E s \in Snapshot : \E m \in DOMAIN Routes[s] :
            Routes[s][m].upstream = sent[r].upstream /\ Routes[s][m].key = key
    IN /\ sent[r].bearer # "absent" => req[r].bearer # "absent" /\ HasKey(sent[r].bearer)
       /\ sent[r].apiKey # "absent" => req[r].apiKey # "absent" /\ HasKey(sent[r].apiKey)

\* "Authentication finishes before the business request body is read"
\* (CONTEXT.md): no byte of a body is asked for unless the credentials match the
\* key of a snapshot in force since the request arrived.
BodyAfterAuthentication ==
  \A r \in Request :
    pc[r] \in {"read", "forward", "copy"} =>
      \E s \in inForce[r] \ {None} : Authenticates(req[r], LocalKey[s])

\* README.md:164-167: a body whose digest the client signed is never rewritten.
SignedBodyIntact ==
  \A r \in Request : sent[r] # None =>
    (sent[r].rewritten <=> sent[r].model # req[r].doc)
    /\ ~(req[r].integrity /\ sent[r].rewritten)

\* A client whose credentials no snapshot accepts gets its answer without having to
\* send a body.
RefusedWithoutBody ==
  \A r \in Request :
    (pc[r] = "load" /\ \A s \in Snapshot : ~Authenticates(req[r], LocalKey[s]))
      ~> pc[r] = "done"

\* README.md:260-262: "new requests atomically receive the new authentication,
\* routing, credentials, and log level snapshot": a request that arrived under the
\* snapshot it runs with is logged at that snapshot's level while it is in force.
NewRequestsGetWholeSnapshot ==
  [][ \A r \in Request :
        line'[r] # line[r] /\ inForce[r] = {runtime} /\ runtime # None
          => level = LevelOf[runtime] ]_vars

\* README.md:171-176: "/v1/models and all forwarded requests require one or both
\* of" the two headers: a request that presents the local key is not refused for it.
LocalKeyIsAccepted ==
  \A r \in Request :
    pc[r] \in {"log", "done"} /\ answer[r].code = "invalid_api_key" =>
      \E s \in inForce[r] \ {None} :
        \/ {req[r].bearer, req[r].apiKey} = {"absent"}
        \/ ~({req[r].bearer, req[r].apiKey} \subseteq {"absent", LocalKey[s]})

=============================================================================
