---------------------------- MODULE HandlerProofs ----------------------------
(***************************************************************************)
(* Proofs about Handler, for any set of requests, snapshots, keys, models   *)
(* and any Inbound.  The invariant says of each request what its goroutine  *)
(* knows at each wait; that it knows it of one snapshot, and that the       *)
(* snapshot was in force since the request arrived, is what an update       *)
(* between two waits must not disturb.                                      *)
(***************************************************************************)
EXTENDS Handler, TLAPS

\* A request that arrived is a request.
Arrived(r) == pc[r] # "idle" => req[r] \in InboundType

\* While a request is in flight its history holds the snapshot in force.
Covered(r) == pc[r] \in PC \ {"idle", "done"} => runtime \in inForce[r]

\* From the end of the first tests to the upstream's answer, the request runs with
\* a snapshot that was in force and admitted it.
Admitted(r) ==
  pc[r] \in {"read", "forward", "copy"} =>
    /\ snap[r] \in inForce[r] \ {None}
    /\ req[r].path = "other"
    /\ Admission(req[r], snap[r]) = None

\* Nothing is sent before the body was read, and there is an answer to log.
Progress(r) ==
  /\ pc[r] \in {"idle", "load", "read"} => sent[r] = None
  /\ pc[r] \in {"forward", "copy"} => sent[r] # None
  /\ pc[r] \in {"copy", "log", "done"} => answer[r] # None

AnsweredByOne(r) ==
  pc[r] \in {"log", "done"} /\ sent[r] = None =>
    \E s \in inForce[r] : answer[r] = Verdict(req[r], s)

SentByOne(r) ==
  sent[r] # None =>
    /\ pc[r] # "idle"
    /\ \E s \in inForce[r] \ {None} :
          req[r].path = "other" /\ Verdict(req[r], s) = None
          /\ sent[r] = Forwarded(req[r], s)

Logged(r) == pc[r] = "done" /\ answer[r].status >= 500 => line[r] = "error"

RequestInv(r) ==
  /\ Arrived(r) /\ Covered(r) /\ Admitted(r) /\ Progress(r)
  /\ AnsweredByOne(r) /\ SentByOne(r) /\ Logged(r)

\* The controller replaces a snapshot by another, never by none.
Swapping == swapping => runtime # None

IInv == TypeOK /\ Swapping /\ \A r \in Request : RequestInv(r)

-----------------------------------------------------------------------------
(* The chains of tests. *)

\* A set of positions of a chain has a least one.
LEMMA MinOfPositions ==
  ASSUME NEW S \in SUBSET (1..8), S # {}
  PROVE  Min(S) \in S
<1>1. \E x \in S : \A y \in S : x <= y
  <2>1. CASE 1 \in S  BY <2>1
  <2>2. CASE 1 \notin S /\ 2 \in S  BY <2>2
  <2>3. CASE 1 \notin S /\ 2 \notin S /\ 3 \in S  BY <2>3
  <2>4. CASE S \subseteq 4..8
    <3>1. CASE 4 \in S  BY <2>4, <3>1
    <3>2. CASE 4 \notin S /\ 5 \in S  BY <2>4, <3>2
    <3>3. CASE 4 \notin S /\ 5 \notin S /\ 6 \in S  BY <2>4, <3>3
    <3>4. CASE 4 \notin S /\ 5 \notin S /\ 6 \notin S /\ 7 \in S  BY <2>4, <3>4
    <3>5. CASE 4 \notin S /\ 5 \notin S /\ 6 \notin S /\ 7 \notin S /\ 8 \in S
      BY <2>4, <3>5
    <3>6. PICK x \in S : x \in 4..8  BY <2>4
    <3>. QED  BY <3>1, <3>2, <3>3, <3>4, <3>5, <3>6
  <2>. QED  BY <2>1, <2>2, <2>3, <2>4
<1>. QED  BY <1>1 DEF Min

\* A chain of at most eight tests yields one of its answers, or None when no test
\* fails.
LEMMA FirstFailingLemma ==
  ASSUME NEW checks, DOMAIN checks \in SUBSET (1..8),
         NEW Answers \in SUBSET AnswerType,
         \A i \in DOMAIN checks : checks[i].fails => checks[i].answer \in Answers
  PROVE  /\ FirstFailing(checks) \in Maybe(Answers)
         /\ FirstFailing(checks) = None => \A i \in DOMAIN checks : ~checks[i].fails
<1>. DEFINE failing == {i \in DOMAIN checks : checks[i].fails}
<1>1. CASE failing = {}
  BY <1>1 DEF FirstFailing, Maybe
<1>2. CASE failing # {}
  <2>1. Min(failing) \in failing  BY <1>2, MinOfPositions
  <2>2. FirstFailing(checks) = checks[Min(failing)].answer
    BY <1>2 DEF FirstFailing
  <2>. QED  BY <2>1, <2>2, NoneAssumption DEF Maybe
<1>. QED  BY <1>1, <1>2

\* The answers of a handler that has a snapshot.
Configured == {a \in AnswerType : a.code # "service_unavailable"}

LEMMA AdmissionLemma ==
  ASSUME NEW q, NEW s
  PROVE  /\ Admission(q, s) \in Maybe(Configured)
         /\ Admission(q, s) = None => Authenticates(q, LocalKey[s])
<1>. DEFINE checks == <<
       Check(~Authenticates(q, LocalKey[s]), 401, "invalid_api_key"),
       Check(q.path = "models" /\ ~q.get, 405, "method_not_allowed"),
       Check(q.path = "other" /\ q.upgrade, 400, "websocket_not_supported"),
       Check(q.path = "other" /\ ~q.json, 415, "unsupported_media_type") >>
<1>1. DOMAIN checks = 1..4  OBVIOUS
<1>2. /\ checks[1].answer = Answer(401, "invalid_api_key")
      /\ checks[2].answer = Answer(405, "method_not_allowed")
      /\ checks[3].answer = Answer(400, "websocket_not_supported")
      /\ checks[4].answer = Answer(415, "unsupported_media_type")
  BY DEF Check
<1>3. Admission(q, s) = FirstFailing(checks)  BY DEF Admission
<1>4. checks[1].fails = ~Authenticates(q, LocalKey[s])  BY DEF Check
<1>. HIDE DEF checks
<1>5. \A i \in DOMAIN checks : checks[i].answer \in Configured
  <2>1. \A i \in 1..4 : i \in {1, 2, 3, 4}  OBVIOUS
  <2>2. /\ Answer(401, "invalid_api_key") \in Configured
        /\ Answer(405, "method_not_allowed") \in Configured
        /\ Answer(400, "websocket_not_supported") \in Configured
        /\ Answer(415, "unsupported_media_type") \in Configured
    BY DEF Answer, AnswerType, Code, Configured
  <2>. QED  BY <1>1, <1>2, <2>1, <2>2
<1>6. DOMAIN checks \in SUBSET (1..8) /\ 1 \in DOMAIN checks  BY <1>1
<1>7. Configured \in SUBSET AnswerType  BY DEF Configured
<1>. QED  BY <1>3, <1>4, <1>5, <1>6, <1>7, FirstFailingLemma

LEMMA AcceptanceLemma ==
  ASSUME NEW q \in InboundType, NEW s
  PROVE  /\ Acceptance(q, s) \in Maybe(Configured)
         /\ Acceptance(q, s) = None =>
              /\ q.doc \in DOMAIN Routes[s]
              /\ ~(Renamed(q, s) /\ q.integrity)
<1>. DEFINE checks == <<
       Check(q.wire \in {"declaredLarge", "large"}, 413, "request_body_too_large"),
       Check(q.wire = "broken", 400, "invalid_json"),
       Check(q.encoding = "other", 415, "unsupported_content_encoding"),
       Check(q.encoding = "gzip" /\ q.gzip = "corrupt", 400, "invalid_json"),
       Check(q.encoding = "gzip" /\ q.gzip = "large", 413, "request_body_too_large"),
       Check(q.doc \in LocateError, 400, q.doc),
       Check(q.doc \notin DOMAIN Routes[s], 404, "unknown_model"),
       Check(Renamed(q, s) /\ q.integrity, 400, "body_integrity_not_supported") >>
<1>1. DOMAIN checks = 1..8  OBVIOUS
<1>2. /\ checks[1].answer = Answer(413, "request_body_too_large")
      /\ checks[2].answer = Answer(400, "invalid_json")
      /\ checks[3].answer = Answer(415, "unsupported_content_encoding")
      /\ checks[4].answer = Answer(400, "invalid_json")
      /\ checks[5].answer = Answer(413, "request_body_too_large")
      /\ checks[6].answer = Answer(400, q.doc)
      /\ checks[7].answer = Answer(404, "unknown_model")
      /\ checks[8].answer = Answer(400, "body_integrity_not_supported")
  BY DEF Check
<1>3. /\ checks[6].fails = (q.doc \in LocateError)
      /\ checks[7].fails = (q.doc \notin DOMAIN Routes[s])
      /\ checks[8].fails = (Renamed(q, s) /\ q.integrity)
  BY DEF Check
<1>4. Acceptance(q, s) = FirstFailing(checks)  BY DEF Acceptance
<1>. HIDE DEF checks
<1>5. ASSUME NEW i \in DOMAIN checks, checks[i].fails
      PROVE  checks[i].answer \in Configured
  <2>1. CASE i = 6
    <3>1. q.doc \in LocateError  BY <1>3, <1>5, <2>1
    <3>2. q.doc \in Code /\ q.doc # "service_unavailable"  BY <3>1 DEF Code, LocateError
    <3>3. Answer(400, q.doc) \in Configured
      BY <3>2 DEF Answer, AnswerType, Configured
    <3>. QED  BY <1>2, <2>1, <3>3
  <2>2. CASE i \in {1, 2, 3, 4, 5, 7, 8}
    <3>1. /\ Answer(413, "request_body_too_large") \in Configured
          /\ Answer(400, "invalid_json") \in Configured
          /\ Answer(415, "unsupported_content_encoding") \in Configured
          /\ Answer(404, "unknown_model") \in Configured
          /\ Answer(400, "body_integrity_not_supported") \in Configured
      BY DEF Answer, AnswerType, Code, LocateError, Configured
    <3>. QED  BY <1>2, <2>2, <3>1
  <2>. QED  BY <1>1, <2>1, <2>2
<1>6. DOMAIN checks \in SUBSET (1..8) /\ {7, 8} \subseteq DOMAIN checks  BY <1>1
<1>7. /\ FirstFailing(checks) \in Maybe(Configured)
      /\ FirstFailing(checks) = None => ~checks[7].fails /\ ~checks[8].fails
  <2>1. Configured \in SUBSET AnswerType  BY DEF Configured
  <2>. QED  BY <1>5, <1>6, <2>1, FirstFailingLemma
<1>. QED  BY <1>3, <1>4, <1>7

-----------------------------------------------------------------------------
(* One request. *)

\* A request no step has touched keeps its invariant.
LEMMA Untouched ==
  ASSUME NEW r, RequestInv(r), runtime' = runtime,
         pc'[r] = pc[r], req'[r] = req[r], snap'[r] = snap[r],
         answer'[r] = answer[r], sent'[r] = sent[r], line'[r] = line[r],
         inForce'[r] = inForce[r]
  PROVE  RequestInv(r)'
BY DEF RequestInv, Arrived, Covered, Admitted, Progress, AnsweredByOne, SentByOne, Logged

\* The model list of a snapshot is an answer.
LEMMA ListingIsTyped ==
  ASSUME NEW s \in Snapshot
  PROVE  Listing(s) \in AnswerType
BY SnapshotAssumption DEF Listing, AnswerType, Code

LEMMA AnswerIsTyped ==
  ASSUME NEW status \in 200..599, NEW code \in Code
  PROVE  Answer(status, code) \in AnswerType
BY DEF Answer, AnswerType

\* What an upstream answers is an answer, and not that of a server without a snapshot.
LEMMA UpstreamAnswerIsTyped ==
  ASSUME NEW status \in UpstreamStatus
  PROVE  Answer(status, "") \in AnswerType /\ Answer(status, "") \in Configured
<1>1. status \in 200..599
  BY StatusAssumption
<1>2. "" \in Code
  BY DEF Code
<1>3. Answer(status, "") \in AnswerType
  BY <1>1, <1>2, AnswerIsTyped
<1>4. Answer(status, "").code # "service_unavailable"
  BY DEF Answer
<1>. QED  BY <1>3, <1>4 DEF Configured

\* An accepted request is forwarded in the form an upstream is sent.
LEMMA ForwardedIsTyped ==
  ASSUME NEW q \in InboundType, NEW s \in Snapshot, q.doc \in DOMAIN Routes[s]
  PROVE  Forwarded(q, s) \in SentType
<1>. DEFINE route == Routes[s][q.doc]
<1>1. route \in Route  BY SnapshotAssumption
<1>2. ASSUME NEW h \in Header
      PROVE  Credential(route, h) \in Header
  <2>. HIDE DEF route
  <2>. QED  BY <1>1, <1>2 DEF Route, Credential, Header
<1>3. q.bearer \in Header /\ q.apiKey \in Header /\ q.encoding \in {"identity", "gzip", "other"}
  BY DEF InboundType
<1>4. route.upstream \in Upstream /\ route.model \in Model
  <2>. HIDE DEF route
  <2>. QED  BY <1>1 DEF Route
<1>5. Renamed(q, s) \in BOOLEAN  BY DEF Renamed
<1>. QED  BY <1>2, <1>3, <1>4, <1>5 DEF Forwarded, SentType

LEMMA SeverityLemma ==
  ASSUME NEW status \in 200..599
  PROVE  Severity(status) \in {"info", "warn", "error"}
         /\ (status >= 500 => Severity(status) = "error")
BY DEF Severity

-----------------------------------------------------------------------------
\* The initial state satisfies the invariant.
LEMMA InitInv == Init => IInv
<1>. SUFFICES ASSUME Init PROVE IInv  OBVIOUS
<1>. USE DEF Init, InitWith
<1>1. TypeOK  BY DEF TypeOK, Level, PC, Maybe
<1>2. \A r \in Request : RequestInv(r)
  BY DEF RequestInv, Arrived, Covered, Admitted, Progress, AnsweredByOne, SentByOne,
         Logged, PC
<1>3. Swapping  BY DEF Swapping
<1>. QED  BY <1>1, <1>2, <1>3 DEF IInv

\* The types of what a request's step writes.
LEMMA TypeStep ==
  ASSUME IInv, [Next]_vars
  PROVE  TypeOK'
<1>. USE DEF IInv
<1>1. ASSUME NEW r \in Request, NEW q \in Inbound, Arrive(r, q)
      PROVE  TypeOK'
  <2>1. q \in InboundType  BY InboundAssumption
  <2>. QED  BY <1>1, <2>1 DEF TypeOK, Arrive, Goto, controller, Maybe, PC
<1>2. ASSUME NEW r \in Request, Healthz(r)
      PROVE  TypeOK'
  <2>1. Answer(405, "method_not_allowed") \in AnswerType
        /\ Answer(503, "service_unavailable") \in AnswerType
    BY DEF Answer, AnswerType, Code
  <2>2. runtime # None => Listing(runtime) \in AnswerType
    BY ListingIsTyped DEF TypeOK, Maybe
  <2>. QED  BY <1>2, <2>1, <2>2 DEF TypeOK, Healthz, Reply, Goto, controller, Maybe, PC
<1>3. ASSUME NEW r \in Request, Unavailable(r)
      PROVE  TypeOK'
  <2>1. Answer(503, "service_unavailable") \in AnswerType
    BY DEF Answer, AnswerType, Code
  <2>. QED  BY <1>3, <2>1 DEF TypeOK, Unavailable, Reply, Goto, controller, Maybe, PC
<1>4. ASSUME NEW r \in Request, Admit(r)
      PROVE  TypeOK'
  <2>1. Admission(req[r], runtime) \in Maybe(AnswerType)
    BY AdmissionLemma DEF Configured, Maybe
  <2>2. Listing(runtime) \in AnswerType
    BY <1>4, ListingIsTyped DEF Admit, TypeOK, Maybe
  <2>. QED  BY <1>4, <2>1, <2>2 DEF TypeOK, Admit, Reply, Goto, controller, Maybe, PC
<1>5. ASSUME NEW r \in Request, ReadBody(r)
      PROVE  TypeOK'
  <2>1. req[r] \in InboundType /\ snap[r] \in Snapshot
    BY <1>5 DEF ReadBody, RequestInv, Arrived, Admitted, TypeOK, Maybe
  <2>2. Acceptance(req[r], snap[r]) \in Maybe(AnswerType)
        /\ (Acceptance(req[r], snap[r]) = None =>
              Forwarded(req[r], snap[r]) \in SentType)
    BY <2>1, AcceptanceLemma, ForwardedIsTyped DEF Configured, Maybe
  <2>. QED  BY <1>5, <2>2 DEF TypeOK, ReadBody, Routing, Reply, Goto, controller, Maybe, PC
<1>6. ASSUME NEW r \in Request, RoundTrip(r)
      PROVE  TypeOK'
  <2>1. CASE UpstreamAnswers(r)
    <3>1. \A status \in UpstreamStatus : Answer(status, "") \in AnswerType
      BY UpstreamAnswerIsTyped
    <3>. QED  BY <2>1, <3>1, ZenonT(30) DEF TypeOK, UpstreamAnswers, Goto, controller, Maybe, PC
  <2>2. CASE UpstreamFails(r)
    <3>1. Answer(504, "upstream_timeout") \in AnswerType
          /\ Answer(502, "upstream_error") \in AnswerType
      BY DEF Answer, AnswerType, Code
    <3>. QED  BY <2>2, <3>1 DEF TypeOK, UpstreamFails, Reply, Goto, controller, Maybe, PC
  <2>. QED  BY <1>6, <2>1, <2>2 DEF RoundTrip
<1>7. ASSUME NEW r \in Request, CopyEnds(r)
      PROVE  TypeOK'
  BY <1>7 DEF TypeOK, CopyEnds, Goto, controller, PC
<1>8. ASSUME NEW r \in Request, LogRequest(r)
      PROVE  TypeOK'
  <2>1. answer[r].status \in 200..599
    BY <1>8 DEF LogRequest, RequestInv, Progress, TypeOK, Maybe, AnswerType
  <2>2. Severity(answer[r].status) \in {"info", "warn", "error"}
    BY <2>1, SeverityLemma
  <2>. QED  BY <1>8, <2>2 DEF TypeOK, LogRequest, Goto, controller, PC
<1>9. ASSUME NEW s \in Snapshot, Update(s)
      PROVE  TypeOK'
  BY <1>9 DEF TypeOK, Update, Maybe
<1>10. CASE SetLevel
  <2>1. LevelOf[runtime] \in Level
    BY <1>10, SnapshotAssumption DEF SetLevel, TypeOK, Swapping, Maybe
  <2>. QED  BY <1>10, <2>1 DEF TypeOK, SetLevel
<1>11. CASE UNCHANGED vars
  BY <1>11 DEF TypeOK, vars
<1>. QED
  BY <1>1, <1>2, <1>3, <1>4, <1>5, <1>6, <1>7, <1>8, <1>9, <1>10, <1>11
  DEF Next, ServeHTTP

\* The handler's own answer, taken from a snapshot that was in force.
LEMMA Replied ==
  ASSUME NEW r, NEW s, req[r] \in InboundType, s \in inForce[r], runtime \in inForce[r],
         sent[r] = None, answer'[r] # None, answer'[r] = Verdict(req[r], s),
         pc'[r] = "log", req'[r] = req[r], sent'[r] = sent[r],
         runtime' = runtime, inForce'[r] = inForce[r]
  PROVE  RequestInv(r)'
<1>1. Arrived(r)' /\ Covered(r)' /\ Admitted(r)' /\ Progress(r)' /\ Logged(r)'
  BY DEF Arrived, Covered, Admitted, Progress, Logged
<1>2. AnsweredByOne(r)'  BY DEF AnsweredByOne
<1>3. SentByOne(r)'  BY DEF SentByOne
<1>. QED  BY <1>1, <1>2, <1>3 DEF RequestInv

\* A step of a forwarded request after its forwarding.
LEMMA Relayed ==
  ASSUME NEW r, RequestInv(r), TypeOK, r \in Request, sent[r] # None,
         pc[r] \in {"forward", "copy", "log"}, pc'[r] \in {"copy", "log", "done"},
         answer'[r] # None, req'[r] = req[r], snap'[r] = snap[r], sent'[r] = sent[r],
         runtime' = runtime, inForce'[r] = inForce[r],
         pc'[r] = "copy" => pc[r] = "forward", Logged(r)'
  PROVE  RequestInv(r)'
<1>1. runtime \in inForce[r]  BY DEF RequestInv, Covered, PC
<1>2. Arrived(r)' /\ Covered(r)' /\ Progress(r)'
  BY <1>1 DEF RequestInv, Arrived, Covered, Progress
<1>3. Admitted(r)'
  BY DEF RequestInv, Admitted
<1>4. AnsweredByOne(r)' /\ SentByOne(r)'
  BY DEF RequestInv, AnsweredByOne, SentByOne
<1>. QED  BY <1>2, <1>3, <1>4 DEF RequestInv

-----------------------------------------------------------------------------
\* A step of request r preserves what the invariant says of r and touches no other.
LEMMA RequestStep ==
  ASSUME IInv, TypeOK', NEW r \in Request,
         \/ \E q \in Inbound : Arrive(r, q)
         \/ ServeHTTP(r) \/ ReadBody(r) \/ RoundTrip(r) \/ CopyEnds(r)
  PROVE  \A r1 \in Request : RequestInv(r1)'
<1>. USE DEF IInv
<1>0. ASSUME NEW r1 \in Request, r1 # r
      PROVE  RequestInv(r1)'
  <2>1. /\ runtime' = runtime
        /\ pc'[r1] = pc[r1] /\ req'[r1] = req[r1] /\ snap'[r1] = snap[r1]
        /\ answer'[r1] = answer[r1] /\ sent'[r1] = sent[r1] /\ line'[r1] = line[r1]
        /\ inForce'[r1] = inForce[r1]
    <3>1. CASE \E q \in Inbound : Arrive(r, q)
      BY <1>0, <3>1 DEF TypeOK, Arrive, Goto, controller
    <3>2. CASE Healthz(r) \/ Unavailable(r)
      BY <1>0, <3>2 DEF TypeOK, Healthz, Unavailable, Reply, Goto, controller
    <3>3. CASE Admit(r)
      BY <1>0, <3>3 DEF TypeOK, Admit, Reply, Goto, controller
    <3>4. CASE ReadBody(r)
      BY <1>0, <3>4 DEF TypeOK, ReadBody, Reply, Goto, controller
    <3>5. CASE UpstreamAnswers(r)
      BY <1>0, <3>5 DEF TypeOK, UpstreamAnswers, Goto, controller
    <3>6. CASE UpstreamFails(r)
      BY <1>0, <3>6 DEF TypeOK, UpstreamFails, Reply, Goto, controller
    <3>7. CASE CopyEnds(r) \/ LogRequest(r)
      BY <1>0, <3>7 DEF TypeOK, CopyEnds, LogRequest, Goto, controller
    <3>. QED  BY <3>1, <3>2, <3>3, <3>4, <3>5, <3>6, <3>7
      DEF ServeHTTP, RoundTrip
  <2>. QED  BY <2>1, Untouched
<1>1. ASSUME NEW q \in Inbound, Arrive(r, q)
      PROVE  RequestInv(r)'
  <2>1. /\ pc'[r] = "load" /\ req'[r] = q /\ sent'[r] = sent[r]
        /\ runtime' = runtime /\ inForce'[r] = {runtime}
    BY <1>1 DEF TypeOK, Arrive, Goto, controller
  <2>2. sent[r] = None
    BY <1>1 DEF Arrive, RequestInv, Progress
  <2>. QED
    BY <2>1, <2>2, InboundAssumption
    DEF RequestInv, Arrived, Covered, Admitted, Progress, AnsweredByOne, SentByOne, Logged
<1>2. ASSUME Healthz(r)
      PROVE  RequestInv(r)'
  <2>1. /\ pc[r] = "load" /\ pc'[r] = "log" /\ req'[r] = req[r] /\ sent'[r] = sent[r]
        /\ runtime' = runtime /\ inForce'[r] = inForce[r]
    BY <1>2 DEF TypeOK, Healthz, Reply, Goto, controller
  <2>0. runtime \in inForce[r] /\ sent[r] = None /\ req[r] \in InboundType
    BY <2>1 DEF RequestInv, Covered, Progress, Arrived, PC
  <2>2. answer'[r] = Verdict(req[r], runtime)
    BY <1>2 DEF TypeOK, Healthz, Reply, Verdict
  <2>3. answer'[r] # None
    <3>1. runtime # None => Listing(runtime) \in AnswerType
      BY ListingIsTyped DEF TypeOK, Maybe
    <3>2. Answer(405, "method_not_allowed") \in AnswerType
          /\ Answer(503, "service_unavailable") \in AnswerType
      BY DEF Answer, AnswerType, Code
    <3>3. answer'[r] \in AnswerType
      BY <1>2, <3>1, <3>2 DEF TypeOK, Healthz, Reply
    <3>. QED  BY <3>3, NoneAssumption
  <2>. QED  BY <2>0, <2>1, <2>2, <2>3, Replied
<1>3. ASSUME Unavailable(r)
      PROVE  RequestInv(r)'
  <2>1. /\ pc[r] = "load" /\ pc'[r] = "log" /\ req'[r] = req[r] /\ sent'[r] = sent[r]
        /\ runtime' = runtime /\ inForce'[r] = inForce[r]
    BY <1>3 DEF TypeOK, Unavailable, Reply, Goto, controller
  <2>0. runtime \in inForce[r] /\ sent[r] = None /\ req[r] \in InboundType
    BY <2>1 DEF RequestInv, Covered, Progress, Arrived, PC
  <2>2. answer'[r] = Verdict(req[r], runtime)
    BY <1>3 DEF TypeOK, Unavailable, Reply, Verdict
  <2>3. answer'[r] # None
    <3>1. Answer(503, "service_unavailable") \in AnswerType
      BY DEF Answer, AnswerType, Code
    <3>. QED  BY <1>3, <3>1, NoneAssumption DEF TypeOK, Unavailable, Reply
  <2>. QED  BY <2>0, <2>1, <2>2, <2>3, Replied
<1>4. ASSUME Admit(r)
      PROVE  RequestInv(r)'
  <2>1. /\ pc[r] = "load" /\ req'[r] = req[r] /\ sent'[r] = sent[r]
        /\ runtime' = runtime /\ inForce'[r] = inForce[r] /\ snap'[r] = runtime
        /\ req[r].path # "health" /\ runtime # None /\ runtime \in Snapshot
    BY <1>4 DEF TypeOK, Admit, controller, Maybe
  <2>2. runtime \in inForce[r] /\ sent[r] = None /\ req[r] \in InboundType
    BY <2>1 DEF RequestInv, Covered, Progress, Arrived, PC
  <2>3. CASE Admission(req[r], runtime) = None /\ req[r].path # "models"
    <3>1. pc'[r] = "read" /\ req[r].path = "other"
      BY <1>4, <2>2, <2>3 DEF TypeOK, Admit, Goto, InboundType
    <3>2. Arrived(r)' /\ Covered(r)' /\ Progress(r)' /\ Logged(r)'
      BY <2>1, <2>2, <3>1 DEF Arrived, Covered, Progress, Logged
    <3>3. Admitted(r)'
      BY <2>1, <2>2, <2>3, <3>1 DEF Admitted
    <3>4. AnsweredByOne(r)' /\ SentByOne(r)'
      BY <2>1, <2>2, <3>1 DEF AnsweredByOne, SentByOne
    <3>. QED  BY <3>2, <3>3, <3>4 DEF RequestInv
  <2>4. CASE Admission(req[r], runtime) # None \/ req[r].path = "models"
    <3>1. pc'[r] = "log" /\ answer'[r] = Verdict(req[r], runtime)
      BY <1>4, <2>1, <2>4 DEF TypeOK, Admit, Reply, Goto, Verdict
    <3>2. Listing(runtime) # None
      BY <2>1, ListingIsTyped, NoneAssumption
    <3>3. answer'[r] # None
      BY <1>4, <2>4, <3>2 DEF TypeOK, Admit, Reply
    <3>. QED  BY <2>1, <2>2, <3>1, <3>3, Replied
  <2>. QED  BY <2>3, <2>4
<1>5. ASSUME ReadBody(r)
      PROVE  RequestInv(r)'
  <2>1. /\ pc[r] = "read" /\ req'[r] = req[r] /\ snap'[r] = snap[r]
        /\ runtime' = runtime /\ inForce'[r] = inForce[r]
    BY <1>5 DEF TypeOK, ReadBody, controller
  <2>2. /\ sent[r] = None /\ req[r] \in InboundType /\ req[r].path = "other"
        /\ snap[r] \in inForce[r] \ {None} /\ snap[r] \in Snapshot
        /\ Admission(req[r], snap[r]) = None /\ runtime \in inForce[r]
    BY <2>1 DEF RequestInv, Progress, Arrived, Admitted, Covered, TypeOK, Maybe, PC
  <2>3. Verdict(req[r], snap[r]) = Acceptance(req[r], snap[r])
    BY <2>2 DEF Verdict
  <2>4. CASE Acceptance(req[r], snap[r]) = None
    <3>1. pc'[r] = "forward" /\ sent'[r] = Forwarded(req[r], snap[r])
      BY <1>5, <2>4 DEF TypeOK, ReadBody, Routing, Goto
    <3>2. Forwarded(req[r], snap[r]) \in SentType
      BY <2>2, <2>4, AcceptanceLemma, ForwardedIsTyped
    <3>3. Forwarded(req[r], snap[r]) # None  BY <3>2, NoneAssumption
    <3>4. Arrived(r)' /\ Covered(r)' /\ Progress(r)' /\ Logged(r)'
      BY <2>1, <2>2, <3>1, <3>3 DEF Arrived, Covered, Progress, Logged
    <3>5. Admitted(r)'
      BY <2>1, <2>2, <3>1 DEF Admitted
    <3>6. AnsweredByOne(r)'
      BY <3>1, <3>3 DEF AnsweredByOne
    <3>7. SentByOne(r)'
      BY <2>1, <2>2, <2>3, <2>4, <3>1 DEF SentByOne
    <3>. QED  BY <3>4, <3>5, <3>6, <3>7 DEF RequestInv
  <2>5. CASE Acceptance(req[r], snap[r]) # None
    <3>1. pc'[r] = "log" /\ answer'[r] = Acceptance(req[r], snap[r])
          /\ sent'[r] = sent[r]
      BY <1>5, <2>5 DEF TypeOK, ReadBody, Routing, Reply, Goto
    <3>. QED  BY <2>1, <2>2, <2>3, <2>5, <3>1, Replied
  <2>. QED  BY <2>4, <2>5
<1>6. ASSUME RoundTrip(r)
      PROVE  RequestInv(r)'
  <2>1. /\ pc[r] = "forward" /\ req'[r] = req[r] /\ snap'[r] = snap[r]
        /\ sent'[r] = sent[r] /\ pc'[r] \in {"copy", "log"}
        /\ runtime' = runtime /\ inForce'[r] = inForce[r]
    <3>1. CASE UpstreamAnswers(r)
      BY <3>1 DEF TypeOK, UpstreamAnswers, Goto, controller
    <3>2. CASE UpstreamFails(r)
      BY <3>2 DEF TypeOK, UpstreamFails, Reply, Goto, controller
    <3>. QED  BY <1>6, <3>1, <3>2 DEF RoundTrip
  <2>2. answer'[r] # None
    <3>1. CASE UpstreamAnswers(r)
      <4>1. PICK status \in UpstreamStatus : answer'[r] = Answer(status, "")
        BY <3>1 DEF TypeOK, UpstreamAnswers
      <4>2. Answer(status, "") \in AnswerType
        BY UpstreamAnswerIsTyped
      <4>. QED  BY <4>1, <4>2, NoneAssumption
    <3>2. CASE UpstreamFails(r)
      <4>1. Answer(504, "upstream_timeout") \in AnswerType
            /\ Answer(502, "upstream_error") \in AnswerType
        BY DEF Answer, AnswerType, Code
      <4>. QED  BY <3>2, <4>1, NoneAssumption DEF TypeOK, UpstreamFails, Reply
    <3>. QED  BY <1>6, <3>1, <3>2 DEF RoundTrip
  <2>3. sent[r] # None /\ Logged(r)'
    BY <2>1 DEF RequestInv, Progress, Logged
  <2>. QED  BY <2>1, <2>2, <2>3, Relayed
<1>7. ASSUME CopyEnds(r)
      PROVE  RequestInv(r)'
  <2>1. /\ pc[r] = "copy" /\ pc'[r] = "log" /\ req'[r] = req[r] /\ snap'[r] = snap[r]
        /\ sent'[r] = sent[r] /\ answer'[r] = answer[r]
        /\ runtime' = runtime /\ inForce'[r] = inForce[r]
    BY <1>7 DEF TypeOK, CopyEnds, Goto, controller
  <2>2. sent[r] # None /\ answer[r] # None /\ Logged(r)'
    BY <2>1 DEF RequestInv, Progress, Logged
  <2>. QED  BY <2>1, <2>2, Relayed
<1>8. ASSUME LogRequest(r)
      PROVE  RequestInv(r)'
  <2>1. /\ pc[r] = "log" /\ pc'[r] = "done" /\ req'[r] = req[r] /\ snap'[r] = snap[r]
        /\ sent'[r] = sent[r] /\ answer'[r] = answer[r]
        /\ runtime' = runtime /\ inForce'[r] = inForce[r]
    BY <1>8 DEF TypeOK, LogRequest, Goto, controller
  <2>2. answer[r].status \in 200..599
    BY <2>1, SMTT(30) DEF RequestInv, Progress, TypeOK, Maybe, AnswerType
  <2>3. answer[r].status >= 500 => line'[r] = "error"
    <3>1. answer[r].status >= 500 => Severity(answer[r].status) = "error"
      BY <2>2, SeverityLemma
    <3>2. Rank["error"] >= Rank[level]
      BY DEF TypeOK, Level, Rank
    <3>. QED  BY <1>8, <3>1, <3>2 DEF TypeOK, LogRequest
  <2>4. Arrived(r)' /\ Covered(r)' /\ Admitted(r)' /\ Progress(r)'
    BY <2>1 DEF RequestInv, Arrived, Covered, Admitted, Progress
  <2>5. AnsweredByOne(r)' /\ SentByOne(r)'
    BY <2>1 DEF RequestInv, AnsweredByOne, SentByOne
  <2>6. Logged(r)'
    BY <2>1, <2>3 DEF Logged
  <2>. QED  BY <2>4, <2>5, <2>6 DEF RequestInv
<1>9. RequestInv(r)'
  BY <1>1, <1>2, <1>3, <1>4, <1>5, <1>6, <1>7, <1>8 DEF ServeHTTP
<1>. QED  BY <1>0, <1>9

\* An update adds to what was in force and takes nothing away.
LEMMA UpdateStep ==
  ASSUME IInv, NEW s \in Snapshot, Update(s), NEW r \in Request
  PROVE  RequestInv(r)'
<1>. USE DEF IInv
<1>1. /\ pc' = pc /\ req' = req /\ snap' = snap /\ answer' = answer /\ sent' = sent
      /\ line' = line /\ runtime' = s
  BY DEF Update
<1>2. inForce[r] \subseteq inForce'[r]
  BY DEF Update, TypeOK
<1>3. InFlight(r) => s \in inForce'[r]
  BY DEF Update, TypeOK
<1>4. Covered(r)'
  BY <1>1, <1>3 DEF Covered, InFlight
<1>5. AnsweredByOne(r)' /\ SentByOne(r)' /\ Admitted(r)'
  BY <1>1, <1>2 DEF RequestInv, AnsweredByOne, SentByOne, Admitted
<1>6. Arrived(r)' /\ Progress(r)' /\ Logged(r)'
  BY <1>1 DEF RequestInv, Arrived, Progress, Logged
<1>. QED  BY <1>4, <1>5, <1>6 DEF RequestInv

LEMMA NextInv ==
  ASSUME IInv, [Next]_vars
  PROVE  IInv'
<1>1. TypeOK'  BY TypeStep
<1>2. Swapping'
  <2>1. \A s \in Snapshot : s # None  BY NoneAssumption
  <2>2. CASE \E s \in Snapshot : Update(s)
    BY <2>1, <2>2 DEF Swapping, Update
  <2>3. CASE SetLevel
    BY <2>3 DEF Swapping, SetLevel
  <2>4. CASE UNCHANGED vars
    BY <2>4 DEF IInv, Swapping, vars
  <2>5. ASSUME NEW r \in Request,
               \/ \E q \in Inbound : Arrive(r, q)
               \/ ServeHTTP(r) \/ ReadBody(r) \/ RoundTrip(r) \/ CopyEnds(r)
        PROVE  Swapping'
    <3>1. UNCHANGED controller
      BY <2>5 DEF Arrive, ServeHTTP, Healthz, Unavailable, Admit, LogRequest, ReadBody,
         RoundTrip, UpstreamAnswers, UpstreamFails, CopyEnds
    <3>. QED  BY <3>1 DEF IInv, Swapping, controller
  <2>. QED  BY <2>2, <2>3, <2>4, <2>5 DEF Next
<1>3. \A r \in Request : RequestInv(r)'
  <2>1. ASSUME NEW r \in Request,
               \/ \E q \in Inbound : Arrive(r, q)
               \/ ServeHTTP(r) \/ ReadBody(r) \/ RoundTrip(r) \/ CopyEnds(r)
        PROVE  \A r1 \in Request : RequestInv(r1)'
    BY <1>1, <2>1, RequestStep
  <2>2. ASSUME NEW s \in Snapshot, Update(s)
        PROVE  \A r \in Request : RequestInv(r)'
    BY <2>2, UpdateStep
  <2>3. CASE SetLevel \/ UNCHANGED vars
    <3>1. ASSUME NEW r \in Request
          PROVE  RequestInv(r)'
      <4>1. RequestInv(r)  BY DEF IInv
      <4>2. /\ runtime' = runtime
            /\ pc'[r] = pc[r] /\ req'[r] = req[r] /\ snap'[r] = snap[r]
            /\ answer'[r] = answer[r] /\ sent'[r] = sent[r] /\ line'[r] = line[r]
            /\ inForce'[r] = inForce[r]
        BY <2>3 DEF SetLevel, vars
      <4>. QED  BY <4>1, <4>2, Untouched
    <3>. QED  BY <3>1
  <2>. QED  BY <2>1, <2>2, <2>3 DEF Next
<1>. QED  BY <1>1, <1>2, <1>3 DEF IInv

-----------------------------------------------------------------------------
(* Theorems. *)

\* The invariant holds in every reachable state, whatever the requests and however
\* often the snapshot is replaced.
THEOREM Inductive == Spec => []IInv
<1>1. Init => IInv  BY InitInv
<1>2. IInv /\ [Next]_vars => IInv'  BY NextInv
<1>. QED  BY <1>1, <1>2, PTL DEF Spec

\* ServeHTTP's variables hold values of their types.
THEOREM TypeCorrect == Spec => []TypeOK
<1>1. IInv => TypeOK  BY DEF IInv
<1>. QED  BY <1>1, Inductive, PTL

\* The handler's own answers come from one snapshot in force during the request.
THEOREM AnswersComeFromOneSnapshot == Spec => []OneSnapshot
<1>1. IInv => OneSnapshot
  BY DEF IInv, OneSnapshot, RequestInv, AnsweredByOne
<1>. QED  BY <1>1, Inductive, PTL

\* What is forwarded is admitted, routed and signed by one such snapshot.
THEOREM ForwardsComeFromOneSnapshot == Spec => []ForwardedByOneSnapshot
<1>1. IInv => ForwardedByOneSnapshot
  BY DEF IInv, ForwardedByOneSnapshot, RequestInv, SentByOne
<1>. QED  BY <1>1, Inductive, PTL

\* No body is asked for before a snapshot in force has accepted the credentials.
THEOREM AuthenticationComesFirst == Spec => []BodyAfterAuthentication
<1>1. IInv => BodyAfterAuthentication
  BY AdmissionLemma DEF IInv, BodyAfterAuthentication, RequestInv, Admitted
<1>. QED  BY <1>1, Inductive, PTL

\* A client's digest never travels with a body it does not match.
THEOREM SignaturesHold == Spec => []SignedBodyIntact
<1>1. ASSUME IInv, NEW r \in Request, sent[r] # None
      PROVE  /\ sent[r].rewritten <=> sent[r].model # req[r].doc
             /\ ~(req[r].integrity /\ sent[r].rewritten)
  <2>1. PICK s \in inForce[r] \ {None} :
           req[r].path = "other" /\ Verdict(req[r], s) = None
           /\ sent[r] = Forwarded(req[r], s)
    BY <1>1 DEF IInv, RequestInv, SentByOne
  <2>2. req[r] \in InboundType
    BY <1>1 DEF IInv, RequestInv, Arrived, SentByOne
  <2>3. Acceptance(req[r], s) = None
    BY <2>1 DEF Verdict
  <2>4. req[r].doc \in DOMAIN Routes[s] /\ ~(Renamed(req[r], s) /\ req[r].integrity)
    BY <2>2, <2>3, AcceptanceLemma
  <2>5. sent[r].rewritten = Renamed(req[r], s) /\ sent[r].model = Routes[s][req[r].doc].model
    BY <2>1 DEF Forwarded
  <2>6. Renamed(req[r], s) <=> Routes[s][req[r].doc].model # req[r].doc
    BY <2>4 DEF Renamed
  <2>. QED  BY <2>4, <2>5, <2>6, SMTT(40)
<1>2. IInv => SignedBodyIntact  BY <1>1 DEF SignedBodyIntact
<1>. QED  BY <1>2, Inductive, PTL

\* A credential that leaves is the key some snapshot keeps for that upstream.
THEOREM LocalKeysStay == Spec => []KeysStayHome
<1>1. ASSUME IInv, NEW r \in Request, sent[r] # None
      PROVE  LET HasKey(key) == \E s \in Snapshot : \E m \in DOMAIN Routes[s] :
                     Routes[s][m].upstream = sent[r].upstream /\ Routes[s][m].key = key
             IN /\ sent[r].bearer # "absent" => req[r].bearer # "absent" /\ HasKey(sent[r].bearer)
                /\ sent[r].apiKey # "absent" => req[r].apiKey # "absent" /\ HasKey(sent[r].apiKey)
  <2>1. PICK s \in inForce[r] \ {None} :
           req[r].path = "other" /\ Verdict(req[r], s) = None
           /\ sent[r] = Forwarded(req[r], s)
    BY <1>1 DEF IInv, RequestInv, SentByOne
  <2>2. req[r] \in InboundType /\ s \in Snapshot
    BY <1>1 DEF IInv, RequestInv, Arrived, SentByOne, TypeOK, Maybe
  <2>3. Acceptance(req[r], s) = None
    BY <2>1 DEF Verdict
  <2>4. req[r].doc \in DOMAIN Routes[s]
    BY <2>2, <2>3, AcceptanceLemma
  <2> DEFINE route == Routes[s][req[r].doc]
  <2>5. /\ sent[r].upstream = route.upstream
        /\ sent[r].bearer = Credential(route, req[r].bearer)
        /\ sent[r].apiKey = Credential(route, req[r].apiKey)
    BY <2>1 DEF Forwarded
  <2>6. \A header : Credential(route, header) # "absent" =>
          header # "absent" /\ Credential(route, header) = route.key
    BY DEF Credential
  <2>. QED  BY <2>2, <2>4, <2>5, <2>6
<1>2. IInv => KeysStayHome  BY <1>1 DEF KeysStayHome
<1>. QED  BY <1>2, Inductive, PTL

=============================================================================
