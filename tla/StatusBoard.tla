----------------------------- MODULE StatusBoard -----------------------------
(***************************************************************************)
(* The status on its way to the tray: Controller.status and its sink        *)
(* (internal/app/controller.go), the availability of the log                *)
(* (internal/logging/logging.go) and the tray adapter that shows both       *)
(* (internal/tray/tray.go).                                                 *)
(*                                                                         *)
(* A status is put together, stored under statusMu and handed to the sink   *)
(* after statusMu is released: three steps, between which other goroutines  *)
(* take theirs.  A log write that fails raises the alarm while it holds the *)
(* mutexes of the log.                                                      *)
(***************************************************************************)
EXTENDS Naturals

CONSTANTS
  Main,       \* the goroutines of Start, Reload and Shutdown, one at a time (reloadMu)
  Serves,     \* the serve goroutines
  Requests,   \* the request goroutines: they only log
  None        \* no deployment; nobody holds the log

Processes == {Main} \cup Serves \cup Requests

ASSUME ProcessAssumption ==
  /\ Main \notin Serves \cup Requests /\ Serves \cap Requests = {}
  /\ None \notin Processes

VARIABLES
  available,  \* Manager.available
  logHolder,  \* who holds the mutexes of slog's handler and of rotateWriter
  status,     \* Controller.status
  sink,       \* Controller.statusSink is set
  current,    \* the serve goroutine of Controller.current
  stopping,   \* Controller.stopping
  pc,         \* per goroutine: its next step
  held,       \* per goroutine: the status it is putting together or delivering
  after,      \* per goroutine: where it goes on after a log line
  sent,       \* per goroutine: the status it handed to the sink last
  queued,     \* Native.status
  ready       \* Native.ready

board == <<status, sink>>
tray  == <<queued, ready>>
life  == <<current, stopping>>
vars  == <<available, logHolder, status, sink, current, stopping, pc, held, after,
           sent, queued, ready>>

State  == {"starting", "running", "config_error", "listener_error", "stopped"}
\* Of Status, the state, whether it names an address, and LoggingAvailable.
Status == [state : State, address : BOOLEAN, logging : BOOLEAN]
StatusOf(state, address, logging) ==
  [state |-> state, address |-> address, logging |-> logging]

PC == {"boot", "install", "idle", "log", "alarmStore", "alarmDeliver", "check", "fail",
       "wait", "evaluate", "store", "deliver"}

\* What New of the tray starts with; also the local of a goroutine that has none.
Blank == StatusOf("starting", FALSE, FALSE)

Init ==
  /\ available \in BOOLEAN /\ logHolder = None
  /\ status = StatusOf("starting", FALSE, available) /\ sink = FALSE
  /\ current = None /\ stopping = FALSE
  /\ pc = [p \in Processes |-> IF p = Main THEN "boot" ELSE "idle"]
  /\ held = [p \in Processes |-> Blank]
  /\ after = [p \in Processes |-> "idle"]
  /\ sent = [p \in Processes |-> status]
  /\ queued = Blank /\ ready = FALSE

Goto(p, step) == pc' = [pc EXCEPT ![p] = step]
Hold(p, state, address) ==
  held' = [held EXCEPT ![p] = StatusOf(state, address, FALSE)]
\* A log line first, then the step named; or the step and then a log line.
LogThen(p, step) == Goto(p, "log") /\ after' = [after EXCEPT ![p] = step]
ThenLog(p, step) == Goto(p, step) /\ after' = [after EXCEPT ![p] = "log"]

-----------------------------------------------------------------------------
(* The tray. *)

\* Variant: a status that comes before the menu exists is dropped.
SetStatusDropped(s) == queued' = IF ready THEN s ELSE queued

\* SetStatus: shown at once, or kept until onReady shows it.
SetStatus(s) == queued' = s

Deliver(p) ==
  /\ held' = [held EXCEPT ![p] = Blank]
  /\ IF sink THEN SetStatus(held[p]) /\ sent' = [sent EXCEPT ![p] = held[p]]
     ELSE UNCHANGED <<queued, sent>>

\* Run, after Start has returned: the event loop builds the menu from Native.status.
OnReady ==
  /\ ~ready /\ pc[Main] = "idle" /\ status.state # "starting"
  /\ ready' = TRUE
  /\ UNCHANGED <<available, logHolder, board, life, pc, held, after, sent, queued>>

-----------------------------------------------------------------------------
(* The log. *)

\* Variant: the log is released before the alarm is raised.
LogReleased(p) ==
  /\ pc[p] = "log" /\ logHolder = None
  /\ \/ Goto(p, after[p]) /\ after' = [after EXCEPT ![p] = "idle"]
        /\ UNCHANGED available
     \/ available /\ available' = FALSE /\ Goto(p, "alarmStore") /\ UNCHANGED after
  /\ UNCHANGED <<logHolder, board, life, held, sent, tray>>

\* rotateWriter.Write: a line is written, or the disk fails for the first time and
\* disable calls markUnavailable with the mutexes held.  A log that is not available
\* swallows the line.
Log(p) ==
  /\ pc[p] = "log" /\ logHolder = None
  /\ \/ Goto(p, after[p]) /\ after' = [after EXCEPT ![p] = "idle"]
        /\ UNCHANGED <<available, logHolder>>
     \/ /\ available /\ available' = FALSE /\ logHolder' = p
        /\ Goto(p, "alarmStore") /\ UNCHANGED after
  /\ UNCHANGED <<board, life, held, sent, tray>>

-----------------------------------------------------------------------------
(* The controller's statuses. *)

\* Variant: only the copy that is delivered carries the alarm.
AlarmStoreCopy(p) ==
  /\ pc[p] = "alarmStore"
  /\ held' = [held EXCEPT ![p] = status]
  /\ Goto(p, "alarmDeliver")
  /\ UNCHANGED <<available, logHolder, board, life, after, sent, tray>>

\* setLoggingAvailable, under statusMu ...
AlarmStore(p) ==
  /\ pc[p] = "alarmStore"
  /\ status' = StatusOf(status.state, status.address, FALSE)
  /\ held' = [held EXCEPT ![p] = status']
  /\ Goto(p, "alarmDeliver")
  /\ UNCHANGED <<available, logHolder, sink, life, after, sent, tray>>

\* ... and after it; disable returns, and the write releases the log.
AlarmDeliver(p) ==
  /\ pc[p] = "alarmDeliver"
  /\ Deliver(p)
  /\ logHolder' = None
  /\ Goto(p, after[p]) /\ after' = [after EXCEPT ![p] = "idle"]
  /\ UNCHANGED <<available, board, life, ready>>

\* The argument of publish: LoggingAvailable is logs.Available() of this moment.
Evaluate(p) ==
  /\ pc[p] = "evaluate"
  /\ held' = [held EXCEPT ![p] = StatusOf(@.state, @.address, available)]
  /\ Goto(p, "store")
  /\ UNCHANGED <<available, logHolder, board, life, after, sent, tray>>

\* publish, under statusMu.
Store(p) ==
  /\ pc[p] = "store"
  /\ status' = held[p]
  /\ Goto(p, "deliver")
  /\ UNCHANGED <<available, logHolder, sink, life, held, after, sent, tray>>

\* publish, after it; a success is logged now.
DeliverStatus(p) ==
  /\ pc[p] = "deliver"
  /\ Deliver(p)
  /\ Goto(p, after[p]) /\ after' = [after EXCEPT ![p] = "idle"]
  /\ UNCHANGED <<available, logHolder, board, life, ready>>

\* main: an error of autostart.Enabled is logged before the sink is set.
Boot ==
  /\ pc[Main] = "boot"
  /\ LogThen(Main, "install") \/ (Goto(Main, "install") /\ UNCHANGED after)
  /\ UNCHANGED <<available, logHolder, board, life, held, sent, tray>>

\* SetStatusSink; the Start that follows may log that it created config.yaml, or that
\* there is no log.
SetStatusSink ==
  /\ pc[Main] = "install"
  /\ sink' = TRUE /\ held' = [held EXCEPT ![Main] = status]
  /\ ThenLog(Main, "deliver") \/ (Goto(Main, "deliver") /\ UNCHANGED after)
  /\ UNCHANGED <<available, logHolder, status, life, sent, tray>>

\* The first thing is Start; Reload and Shutdown are clicks in the menu, and a Reload may
\* get reloadMu only after Shutdown.
Called == pc[Main] = "idle" /\ (ready \/ status.state = "starting")

\* Start or Reload succeeds, over the listener in force or over a new one.  A Reload
\* behind Shutdown whose file loads returns without a trace: c.stopping is set.
Succeed ==
  /\ Called /\ ~stopping
  /\ \/ current # None /\ UNCHANGED current
     \/ \E s \in Serves : pc[s] = "idle" /\ s # current /\ current' = s
  /\ Hold(Main, "running", TRUE)
  /\ ThenLog(Main, "evaluate")
  /\ UNCHANGED <<available, logHolder, board, stopping, sent, tray>>

\* Start or Reload fails: the line first.  The file is loaded before c.stopping is looked
\* at, so this happens behind Shutdown too ...
Fail ==
  /\ Called
  /\ LogThen(Main, "fail")
  /\ UNCHANGED <<available, logHolder, board, life, held, sent, tray>>

\* ... then publishFailure or configFailure names the address now in force,
\* listenerFailure the one that Start could not bind.
Report ==
  /\ pc[Main] = "fail"
  /\ \/ Hold(Main, "config_error", current # None)
     \/ status.state = "starting" /\ Hold(Main, "listener_error", TRUE)
  /\ Goto(Main, "evaluate")
  /\ UNCHANGED <<available, logHolder, board, life, after, sent, tray>>

\* The listener of a serve goroutine is lost: the line first, then c.mu.
Lose(s) ==
  /\ pc[s] = "idle" /\ current = s
  /\ LogThen(s, "check")
  /\ UNCHANGED <<available, logHolder, board, life, held, sent, tray>>

Check(s) ==
  /\ pc[s] = "check"
  /\ IF current = s
     THEN current' = None /\ Hold(s, "listener_error", TRUE) /\ Goto(s, "evaluate")
     ELSE Goto(s, "idle") /\ UNCHANGED <<current, held>>
  /\ UNCHANGED <<available, logHolder, board, stopping, after, sent, tray>>

Shutdown ==
  /\ Called /\ ready /\ ~stopping
  /\ stopping' = TRUE /\ current' = None
  /\ Goto(Main, "wait")
  /\ UNCHANGED <<available, logHolder, board, held, after, sent, tray>>

\* Variant: Shutdown does not wait for the serve goroutines.
ServersAny == TRUE

\* c.servers.Wait
ServersDone == \A s \in Serves : pc[s] = "idle"

Stopped ==
  /\ pc[Main] = "wait" /\ ServersDone
  /\ Hold(Main, "stopped", FALSE)
  /\ ThenLog(Main, "evaluate")
  /\ UNCHANGED <<available, logHolder, board, life, sent, tray>>

\* A request that a listener took ends with its line, some time later.
RequestLogs(r) ==
  /\ pc[r] = "idle" /\ current # None
  /\ LogThen(r, "idle")
  /\ UNCHANGED <<available, logHolder, board, life, held, sent, tray>>

-----------------------------------------------------------------------------
\* What a goroutine does of its own accord once it has begun.
Publish(p) == Evaluate(p) \/ Store(p) \/ DeliverStatus(p)
Alarm(p) == AlarmStore(p) \/ AlarmDeliver(p)
MainStep == Boot \/ SetStatusSink \/ Report \/ Stopped \/ OnReady
Step(p) ==
  \/ Log(p) \/ Alarm(p) \/ Publish(p)
  \/ p \in Serves /\ Check(p)
  \/ p = Main /\ MainStep

Terminated == pc[Main] = "idle" /\ stopping /\ UNCHANGED vars

Next ==
  \/ \E p \in Processes : Step(p)
  \/ Succeed \/ Fail \/ Shutdown
  \/ \E s \in Serves : Lose(s)
  \/ \E r \in Requests : RequestLogs(r)
  \/ Terminated

\* Goroutines that have begun go on, and the log is a fair mutex; what the user, the
\* network and the clients do is up to them.
Fairness == \A p \in Processes : SF_vars(Step(p))

Spec == Init /\ [][Next]_vars /\ Fairness

-----------------------------------------------------------------------------
\* Board, tray and goroutines hold values of their types; who raises the alarm holds
\* the log.
TypeOK ==
  /\ available \in BOOLEAN /\ logHolder \in Processes \cup {None}
  /\ status \in Status /\ sink \in BOOLEAN
  /\ current \in Serves \cup {None} /\ stopping \in BOOLEAN
  /\ pc \in [Processes -> PC]
  /\ held \in [Processes -> Status] /\ sent \in [Processes -> Status]
  /\ after \in [Processes -> PC]
  /\ queued \in Status /\ ready \in BOOLEAN
  /\ \A p \in Processes : logHolder = p <=> pc[p] \in {"alarmStore", "alarmDeliver"}

AtRest == \A p \in Processes : pc[p] = "idle"

\* tray.go:77 "updates or queues the latest": when all is at rest the tray shows what
\* one of the goroutines sent last, never something that goroutine sent before, and
\* nothing that came before the menu existed is lost.
TrayShowsALastStatus == sink /\ AtRest => \E p \in Processes : queued = sent[p]

\* controller.go:240: once Shutdown has waited for the serve goroutines nothing goes on the
\* board that names a listener, however late their reports and the clicks that wait for
\* reloadMu are: what it says is left as it is, or becomes "stopped", or the error of a
\* Reload behind Shutdown whose file does not load (controller.go:149-162).
NoListenerAfterStop ==
  [][stopping /\ pc[Main] # "wait" =>
       \/ status'.state = status.state /\ status'.address = status.address
       \/ status'.state \in {"stopped", "config_error"} /\ ~status'.address]_vars

\* README.md:285: the write that finds the disk failing gets the alarm to the tray.
AlarmShown == logHolder # None ~> ~queued.logging

\* README.md:284-285: "the tray reports Logging unavailable": when all is at rest, it
\* still does.
LoggingShown == ready /\ AtRest => queued.logging = available

=============================================================================
