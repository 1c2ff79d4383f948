-------------------------------- MODULE Relay --------------------------------
(***************************************************************************)
(* internal/proxy/tracking_writer.go between httputil.ReverseProxy and      *)
(* net/http: what one upstream response becomes for the client and for the  *)
(* log.                                                                     *)
(*                                                                         *)
(* The reverse proxy (external) calls the writer it was given: once per     *)
(* interim response of the upstream (Got1xxResponse, in the transport's     *)
(* goroutine, never after RoundTrip has returned), once for the final       *)
(* headers, once per chunk.  handler.go:111 sets FlushInterval to -1: every *)
(* chunk is flushed, and a timer flushes the headers as soon as the copy    *)
(* begins, before or after the first chunk.                                 *)
(***************************************************************************)
EXTENDS Integers

CONSTANTS
  Final,      \* final statuses an upstream answers with
  Interim,    \* interim statuses it may send before (100, 102, 103)
  MaxChunks   \* bound on the chunks of a response

ASSUME FinalAssumption   == Final \subseteq 200 .. 599
ASSUME InterimAssumption == Interim \subseteq 100 .. 199 \ {101}
ASSUME ChunksAssumption  == MaxChunks \in Nat

VARIABLES
  pc,        \* the reverse proxy: "roundTrip", "copy", "write", "flush", "log", "done"
  due,       \* the status the client is due, 0 until it is known
  produced,  \* chunks the client is due
  interim,   \* the upstream has sent an interim response
  status,    \* trackingWriter.status
  counted,   \* trackingWriter.bytesWritten, in chunks
  header,    \* net/http: the final status it has taken or implied, 0 before
  taken,     \* net/http: chunks it accepted from Write
  flushed,   \* net/http: chunks it has pushed to the client, -1 for not even headers
  timer,     \* the header flush is pending
  aborted,   \* the copy broke off and the connection is dropped
  logged     \* status and response_bytes of the log line

writer  == <<status, counted>>
net     == <<header, taken, flushed>>
vars    == <<pc, due, produced, interim, status, counted, header, taken, flushed,
             timer, aborted, logged>>

Unlogged == [status |-> 0, bytes |-> 0]

Init ==
  /\ pc = "roundTrip"
  /\ due = 0 /\ produced = 0 /\ interim = FALSE
  /\ status = 0 /\ counted = 0
  /\ header = 0 /\ taken = 0 /\ flushed = -1
  /\ timer = FALSE /\ aborted = FALSE /\ logged = Unlogged

-----------------------------------------------------------------------------
(* net/http's ResponseWriter. *)

\* An interim status goes out at once and leaves the final one open.
NetHeader(code) == IF header = 0 /\ code >= 200 THEN code ELSE header

\* Without a status, the first write or flush implies 200.
Implied == IF header = 0 THEN 200 ELSE header

-----------------------------------------------------------------------------
(* trackingWriter: each operator says what becomes of writer and of header. *)

\* Variant: the status is recorded but not passed on.
WriteHeaderKept(code) ==
  /\ status' = (IF status = 0 THEN code ELSE status)
  /\ UNCHANGED header

\* Only the first status, of whatever kind, is recorded and passed on.
WriteHeader(code) ==
  IF status # 0 THEN UNCHANGED <<status, header>>
  ELSE status' = code /\ header' = NetHeader(code)

\* Variant: what was asked for is counted, not what was written.
WriteAsked(n) ==
  /\ status' = (IF status = 0 THEN 200 ELSE status)
  /\ header' = Implied
  /\ taken' = taken + n
  /\ counted' = counted + 1

\* Write, of which net/http takes n: 1, or 0 when the client is gone.
Write(n) ==
  /\ status' = (IF status = 0 THEN 200 ELSE status)
  /\ header' = Implied
  /\ taken' = taken + n
  /\ counted' = counted + n

\* Variant: Flush does not reach the writer underneath.
FlushNothing == UNCHANGED <<status, header, flushed>>

Flush ==
  /\ status' = (IF status = 0 THEN 200 ELSE status)
  /\ header' = Implied
  /\ flushed' = taken

\* Status(): what the log line says.
LoggedStatus == IF status = 0 THEN 200 ELSE status

-----------------------------------------------------------------------------
(* httputil.ReverseProxy. *)

\* Got1xxResponse
SendInterim ==
  /\ pc = "roundTrip"
  /\ \E code \in Interim : WriteHeader(code)
  /\ interim' = TRUE
  /\ UNCHANGED <<pc, due, produced, counted, taken, flushed, timer, aborted, logged>>

\* RoundTrip returns: the final status, then the copy with its timer.
SendHeaders ==
  /\ pc = "roundTrip"
  /\ \E code \in Final : WriteHeader(code) /\ due' = code
  /\ pc' = "copy" /\ timer' = TRUE
  /\ UNCHANGED <<produced, interim, counted, taken, flushed, aborted, logged>>

\* RoundTrip fails: ErrorHandler calls writeError, WriteHeader and then Write.
FailHeaders ==
  /\ pc = "roundTrip"
  /\ \E code \in {502, 504} : WriteHeader(code) /\ due' = code
  /\ pc' = "write"
  /\ UNCHANGED <<produced, interim, counted, taken, flushed, timer, aborted, logged>>

FailBody ==
  /\ pc = "write"
  /\ produced' = 1
  /\ \E n \in {0, 1} : Write(n) /\ aborted' = (n = 0)
  /\ pc' = "log"
  /\ UNCHANGED <<due, interim, flushed, timer, logged>>

\* delayedFlush, in the timer's goroutine, while the copy waits for a chunk.
TimerFlush ==
  /\ pc = "copy" /\ timer
  /\ Flush
  /\ timer' = FALSE
  /\ UNCHANGED <<pc, due, produced, interim, counted, taken, aborted, logged>>

\* A chunk arrives and is written; a short write ends the copy.
CopyChunk ==
  /\ pc = "copy" /\ produced < MaxChunks
  /\ produced' = produced + 1
  /\ \/ Write(1) /\ pc' = "flush" /\ UNCHANGED <<aborted, timer>>
     \/ Write(0) /\ pc' = "log" /\ aborted' = TRUE /\ timer' = FALSE
  /\ UNCHANGED <<due, interim, flushed, logged>>

\* maxLatencyWriter.Write flushes at once; a pending timer is left pending.
FlushChunk ==
  /\ pc = "flush"
  /\ Flush
  /\ pc' = "copy"
  /\ UNCHANGED <<due, produced, interim, counted, taken, timer, aborted, logged>>

\* The body ends, or breaks off and ErrAbortHandler unwinds ServeHTTP.
CopyEnds ==
  /\ pc = "copy"
  /\ aborted' \in BOOLEAN
  /\ pc' = "log" /\ timer' = FALSE
  /\ UNCHANGED <<due, produced, interim, writer, net, logged>>

\* The deferred log line; then net/http ends the response, unless it is dropped.
LogAndFinish ==
  /\ pc = "log"
  /\ logged' = [status |-> LoggedStatus, bytes |-> counted]
  /\ IF aborted THEN UNCHANGED <<header, flushed>>
     ELSE header' = Implied /\ flushed' = taken
  /\ pc' = "done"
  /\ UNCHANGED <<due, produced, interim, writer, taken, timer, aborted>>

Terminated == pc = "done" /\ UNCHANGED vars

Next ==
  \/ SendInterim \/ SendHeaders \/ FailHeaders \/ FailBody
  \/ TimerFlush \/ CopyChunk \/ FlushChunk \/ CopyEnds
  \/ LogAndFinish \/ Terminated

\* The proxy's own steps are taken; chunks and headers come from the upstream.
Fairness == WF_vars(FailBody \/ FlushChunk \/ TimerFlush \/ LogAndFinish)

Spec == Init /\ [][Next]_vars /\ Fairness

-----------------------------------------------------------------------------
Flags == interim \in BOOLEAN /\ timer \in BOOLEAN /\ aborted \in BOOLEAN

\* The writer, net/http and the proxy hold values of their types.
TypeOK ==
  /\ Flags
  /\ pc \in {"roundTrip", "copy", "write", "flush", "log", "done"}
  /\ due \in {0, 502, 504} \cup Final
  /\ produced \in 0 .. MaxChunks + 1 /\ counted \in 0 .. taken
  /\ status \in {0, 200, 502, 504} \cup Final \cup Interim
  /\ header \in {0, 200, 502, 504} \cup Final
  /\ taken \in 0 .. produced /\ flushed \in -1 .. taken
  /\ logged \in [status : {0, 200, 502, 504} \cup Final \cup Interim,
                 bytes : 0 .. MaxChunks + 1]

\* README.md:52 "status ... preserved", and the line that reports it: without an
\* interim response the client and the log get the status of the upstream, or that
\* of the handler's own error, however the flushes fall.
StatusWithoutInterim ==
  pc = "done" /\ ~interim =>
    /\ logged.status = due
    /\ header # 0 => header = due

\* README.md:52 "response bytes ... preserved": a response that was not broken off
\* is delivered whole, and the line counts the bytes net/http accepted, no more.
BytesPreserved ==
  pc = "done" =>
    /\ logged.bytes = taken
    /\ ~aborted => taken = produced /\ flushed = produced

\* README.md:53 "SSE flushing ... preserved": whenever the proxy waits for the next
\* chunk the client has been pushed all the previous ones, after an interim response
\* as well.
Streamed == pc = "copy" /\ produced > 0 => flushed = produced

\* An event stream that stays silent still has its headers pushed to the client.
HeadersPushed == pc = "copy" ~> (flushed >= 0 \/ aborted)

\* README.md:52: "status ... preserved", of any response.
StatusPreserved == pc = "done" /\ ~aborted => header = due

=============================================================================
