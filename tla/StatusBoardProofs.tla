-------------------------- MODULE StatusBoardProofs --------------------------
(***************************************************************************)
(* Proofs about StatusBoard, for any serve goroutines and any requests.     *)
(***************************************************************************)
EXTENDS StatusBoard, TLAPS

Alarming == {"alarmStore", "alarmDeliver"}

\* Where the goroutines can be, and where each goes on after a log line.
WayInv ==
  /\ \A r \in Requests : pc[r] \in {"idle", "log"} \cup Alarming /\ after[r] = "idle"
  /\ \A s \in Serves :
        /\ pc[s] \in {"idle", "log", "check", "evaluate", "store", "deliver"} \cup Alarming
        /\ after[s] \in {"idle", "check"}
  /\ after[Main] \in {"idle", "log", "install", "fail"}
  /\ pc[Main] = "idle" => after[Main] = "idle"

\* The tray has what somebody sent last, or Main is about to send it the first status.
SentInv ==
  sink => pc[Main] = "deliver" \/ \E p \in Processes : queued = sent[p]

\* A status that somebody is about to store.
Publishing(p) == pc[p] \in {"evaluate", "store"}

\* The program has left the first state by the time there is a menu to click in, and
\* nobody brings it back.
StartedInv ==
  /\ ready => status.state # "starting"
  /\ \A p \in Processes : Publishing(p) => held[p].state # "starting"

\* Once Shutdown has begun no listener is in force, and none is started: behind its wait
\* only Main publishes, that it has stopped or that a file did not load.
StopInv ==
  /\ pc[Main] = "wait" => stopping
  /\ stopping =>
       /\ current = None
       /\ status.state # "starting"
       /\ pc[Main] \in {"wait", "evaluate", "store", "deliver", "log", "fail", "idle"} \cup Alarming
       /\ after[Main] \in {"idle", "log", "fail"}
       /\ pc[Main] # "wait" => \A s \in Serves : pc[s] = "idle"
       /\ Publishing(Main) =>
            held[Main].state \in {"stopped", "config_error"} /\ ~held[Main].address

IInv == TypeOK /\ WayInv /\ SentInv /\ StartedInv /\ StopInv

LEMMA InitInv == Init => IInv
<1>. SUFFICES ASSUME Init  PROVE IInv
  OBVIOUS
<1>. USE ProcessAssumption DEF Init
<1>1. TypeOK
  <2>1. Blank \in Status /\ status \in Status
    BY DEF Blank, Status, StatusOf, State
  <2>. QED  BY <2>1 DEF TypeOK, Processes, PC
<1>2. WayInv /\ SentInv /\ StartedInv /\ StopInv
  BY DEF WayInv, SentInv, StartedInv, Publishing, StopInv, Processes, Alarming, StatusOf
<1>. QED  BY <1>1, <1>2 DEF IInv

LEMMA TypeStep == TypeOK /\ WayInv /\ [Next]_vars => TypeOK'
<1>. SUFFICES ASSUME TypeOK, WayInv, [Next]_vars  PROVE TypeOK'
  OBVIOUS
<1>. USE ProcessAssumption DEF TypeOK, Processes, Goto, LogThen, ThenLog, Hold, PC, board,
         tray, life
<1>0. /\ Blank \in Status
      /\ \A x \in State, a, l \in BOOLEAN : StatusOf(x, a, l) \in Status
  BY DEF Blank, Status, StatusOf, State
<1>16. \A p \in Processes : after[p] \notin Alarming
  BY DEF WayInv, Alarming
<1>1. ASSUME NEW p \in Processes, Log(p)  PROVE TypeOK'
  <2>. after[p] \notin {"alarmStore", "alarmDeliver"}
    BY <1>16 DEF Alarming
  <2>1. CASE logHolder' = p
    BY <1>1, <2>1 DEF Log
  <2>2. CASE logHolder' = logHolder
    <3>1. Goto(p, after[p]) /\ after' = [after EXCEPT ![p] = "idle"] /\ available' = available
      BY <1>1, <2>2 DEF Log
    <3>. QED  BY <1>1, <2>2, <3>1 DEF Log
  <2>. QED  BY <1>1, <2>1, <2>2 DEF Log
<1>2. ASSUME NEW p \in Processes, AlarmStore(p)  PROVE TypeOK'
  <2>. StatusOf(status.state, status.address, FALSE) \in Status
    BY DEF Status, StatusOf
  <2>. QED  BY <1>2 DEF AlarmStore
<1>3. ASSUME NEW p \in Processes, AlarmDeliver(p) \/ DeliverStatus(p)  PROVE TypeOK'
  <2>. after[p] \notin {"alarmStore", "alarmDeliver"}
    BY <1>16 DEF Alarming
  <2>. QED  BY <1>0, <1>3 DEF AlarmDeliver, DeliverStatus, Deliver, SetStatus
<1>4. ASSUME NEW p \in Processes, Evaluate(p)  PROVE TypeOK'
  <2>. StatusOf(held[p].state, held[p].address, available) \in Status
    <3>. held[p] \in Status
      OBVIOUS
    <3>. QED  BY DEF Status, StatusOf
  <2>. QED  BY <1>4 DEF Evaluate
<1>5. ASSUME NEW p \in Processes, Store(p)  PROVE TypeOK'
  BY <1>5 DEF Store
<1>6. CASE Boot \/ OnReady
  BY <1>6, ZenonT(30) DEF Boot, OnReady
<1>15. CASE SetStatusSink
  BY <1>15 DEF SetStatusSink
<1>7. CASE Report
  <2>1. /\ StatusOf("config_error", current # None, FALSE) \in Status
        /\ StatusOf("listener_error", TRUE, FALSE) \in Status
    BY <1>0, Zenon DEF State
  <2>2. \E x \in Status : held' = [held EXCEPT ![Main] = x]
    BY <1>7, <2>1 DEF Report
  <2>. QED  BY <1>7, <2>2 DEF Report
<1>14. CASE Stopped
  <2>. StatusOf("stopped", FALSE, FALSE) \in Status
    BY <1>0 DEF State
  <2>. QED  BY <1>14 DEF Stopped
<1>8. CASE Succeed
  BY <1>0, <1>8 DEF Succeed, Called, State
<1>9. CASE Fail \/ Shutdown
  BY <1>9, ZenonT(30) DEF Fail, Shutdown, Called
<1>10. ASSUME NEW s \in Serves, Lose(s)  PROVE TypeOK'
  BY <1>10 DEF Lose
<1>11. ASSUME NEW s \in Serves, Check(s)  PROVE TypeOK'
  <2>1. CASE current = s
    <3>1. StatusOf("listener_error", TRUE, FALSE) \in Status
      BY <1>0, Zenon DEF State
    <3>2. /\ held' = [held EXCEPT ![s] = StatusOf("listener_error", TRUE, FALSE)]
          /\ pc' = [pc EXCEPT ![s] = "evaluate"] /\ pc[s] = "check" /\ current' = None
          /\ UNCHANGED <<available, logHolder, board, stopping, after, sent, tray>>
      <4>. HIDE DEF TypeOK, board, tray
      <4>. QED  BY <1>11, <2>1, Zenon DEF Check
    <3>. QED  BY <3>1, <3>2
  <2>2. CASE current # s
    BY <1>11, <2>2 DEF Check
  <2>. QED  BY <2>1, <2>2
<1>12. ASSUME NEW r \in Requests, RequestLogs(r)  PROVE TypeOK'
  BY <1>12 DEF RequestLogs
<1>13. CASE UNCHANGED vars
  BY <1>13 DEF vars
<1>. QED
  BY <1>1, <1>2, <1>3, <1>4, <1>5, <1>6, <1>7, <1>8, <1>9, <1>10, <1>11, <1>12, <1>13, <1>14, <1>15, Zenon
  DEF Next, Step, Alarm, Publish, MainStep, Terminated

\* One step keeps where everybody is.
LEMMA WayStep == TypeOK /\ WayInv /\ [Next]_vars => WayInv'
<1>. SUFFICES ASSUME TypeOK, WayInv, [Next]_vars  PROVE WayInv'
  OBVIOUS
<1>. USE ProcessAssumption DEF TypeOK, WayInv, Alarming, Processes, Goto, LogThen, ThenLog, Hold,
         PC, StatusOf
<1>1. ASSUME NEW p \in Processes, Log(p)  PROVE WayInv'
  BY <1>1 DEF Log
<1>2. ASSUME NEW p \in Processes, AlarmStore(p)  PROVE WayInv'
  BY <1>2 DEF AlarmStore
<1>3. ASSUME NEW p \in Processes, AlarmDeliver(p) \/ DeliverStatus(p)  PROVE WayInv'
  BY <1>3 DEF AlarmDeliver, DeliverStatus, Deliver
<1>4. ASSUME NEW p \in Processes, Evaluate(p)  PROVE WayInv'
  BY <1>4 DEF Evaluate
<1>5. ASSUME NEW p \in Processes, Store(p)  PROVE WayInv'
  BY <1>5 DEF Store
<1>6. CASE Boot \/ SetStatusSink \/ OnReady
  BY <1>6 DEF Boot, SetStatusSink, OnReady
<1>7. CASE Report \/ Stopped
  BY <1>7 DEF Report, Stopped
<1>8. CASE Succeed \/ Fail \/ Shutdown
  BY <1>8 DEF Succeed, Fail, Shutdown, Called
<1>9. ASSUME NEW s \in Serves, Lose(s)  PROVE WayInv'
  BY <1>9 DEF Lose
<1>10. ASSUME NEW s \in Serves, Check(s)  PROVE WayInv'
  BY <1>10 DEF Check
<1>11. ASSUME NEW r \in Requests, RequestLogs(r)  PROVE WayInv'
  BY <1>11 DEF RequestLogs
<1>12. CASE UNCHANGED vars
  BY <1>12 DEF vars
<1>. QED
  BY <1>1, <1>2, <1>3, <1>4, <1>5, <1>6, <1>7, <1>8, <1>9, <1>10, <1>11, <1>12, Zenon
  DEF Next, Step, Alarm, Publish, MainStep, Terminated

\* What is sent last is remembered by its sender.
LEMMA SentStep == TypeOK /\ SentInv /\ [Next]_vars => SentInv'
<1>. SUFFICES ASSUME TypeOK, SentInv, [Next]_vars  PROVE SentInv'
  OBVIOUS
<1>. USE ProcessAssumption DEF TypeOK, SentInv, Processes, Goto, LogThen, ThenLog, board, tray
<1>1. ASSUME NEW p \in Processes, Log(p)  PROVE SentInv'
  BY <1>1 DEF Log
<1>2. ASSUME NEW p \in Processes, AlarmStore(p)  PROVE SentInv'
  BY <1>2 DEF AlarmStore
<1>3. ASSUME NEW p \in Processes, AlarmDeliver(p) \/ DeliverStatus(p)  PROVE SentInv'
  <2>. sink => queued' = sent'[p]
    BY <1>3 DEF AlarmDeliver, DeliverStatus, Deliver, SetStatus
  <2>. QED  BY <1>3 DEF AlarmDeliver, DeliverStatus
<1>4. ASSUME NEW p \in Processes, Evaluate(p) \/ Store(p)  PROVE SentInv'
  BY <1>4 DEF Evaluate, Store
<1>5. CASE Boot \/ OnReady
  BY <1>5 DEF Boot, OnReady
<1>6. CASE SetStatusSink
  <2>. CASE pc'[Main] = "deliver"
    OBVIOUS
  <2>. QED  BY <1>6 DEF SetStatusSink
<1>7. CASE Report \/ Stopped \/ Succeed \/ Fail \/ Shutdown
  BY <1>7 DEF Report, Stopped, Succeed, Fail, Shutdown, Called
<1>8. ASSUME NEW s \in Serves, Lose(s) \/ Check(s)  PROVE SentInv'
  BY <1>8 DEF Lose, Check
<1>9. ASSUME NEW r \in Requests, RequestLogs(r)  PROVE SentInv'
  BY <1>9 DEF RequestLogs
<1>10. CASE UNCHANGED vars
  BY <1>10 DEF vars
<1>. QED
  BY <1>1, <1>2, <1>3, <1>4, <1>5, <1>6, <1>7, <1>8, <1>9, <1>10, Zenon
  DEF Next, Step, Alarm, Publish, MainStep, Terminated

\* What is published is never the first status again.
LEMMA StartedStep == TypeOK /\ WayInv /\ StartedInv /\ [Next]_vars => StartedInv'
<1>. SUFFICES ASSUME TypeOK, WayInv, StartedInv, [Next]_vars  PROVE StartedInv'
  OBVIOUS
<1>. USE ProcessAssumption DEF TypeOK, WayInv, StartedInv, Publishing, Alarming, Processes, Goto,
         LogThen, ThenLog, Hold, PC, StatusOf, board, life, tray
<1>1. ASSUME NEW p \in Processes, Log(p)  PROVE StartedInv'
  BY <1>1 DEF Log
<1>2. ASSUME NEW p \in Processes, AlarmStore(p)  PROVE StartedInv'
  BY <1>2 DEF AlarmStore
<1>3. ASSUME NEW p \in Processes, AlarmDeliver(p) \/ DeliverStatus(p)  PROVE StartedInv'
  BY <1>3 DEF AlarmDeliver, DeliverStatus, Deliver
<1>4. ASSUME NEW p \in Processes, Evaluate(p) \/ Store(p)  PROVE StartedInv'
  BY <1>4 DEF Evaluate, Store
<1>5. CASE Boot \/ SetStatusSink \/ OnReady
  BY <1>5 DEF Boot, SetStatusSink, OnReady
<1>6. CASE Report \/ Stopped \/ Succeed \/ Fail \/ Shutdown
  BY <1>6 DEF Report, Stopped, Succeed, Fail, Shutdown, Called
<1>7. ASSUME NEW s \in Serves, Lose(s) \/ Check(s)  PROVE StartedInv'
  BY <1>7 DEF Lose, Check
<1>8. ASSUME NEW r \in Requests, RequestLogs(r)  PROVE StartedInv'
  BY <1>8 DEF RequestLogs
<1>9. CASE UNCHANGED vars
  BY <1>9 DEF vars
<1>. QED
  BY <1>1, <1>2, <1>3, <1>4, <1>5, <1>6, <1>7, <1>8, <1>9, Zenon
  DEF Next, Step, Alarm, Publish, MainStep, Terminated

\* Behind Shutdown's wait only Main is left, and what it brings names no listener: also
\* when a Reload that waited for reloadMu fails to load its file.
LEMMA StopStep == TypeOK /\ WayInv /\ StartedInv /\ StopInv /\ [Next]_vars => StopInv'
<1>. SUFFICES ASSUME TypeOK, WayInv, StartedInv, StopInv, [Next]_vars  PROVE StopInv'
  OBVIOUS
<1>. USE ProcessAssumption DEF TypeOK, WayInv, StopInv, Publishing, Alarming, Processes, Goto,
         LogThen, ThenLog, Hold, PC, StatusOf, board, life, tray
<1>1. ASSUME NEW p \in Processes, Log(p)  PROVE StopInv'
  BY <1>1 DEF Log
<1>2. ASSUME NEW p \in Processes, AlarmStore(p)  PROVE StopInv'
  BY <1>2 DEF AlarmStore
<1>3. ASSUME NEW p \in Processes, AlarmDeliver(p) \/ DeliverStatus(p)  PROVE StopInv'
  BY <1>3 DEF AlarmDeliver, DeliverStatus, Deliver
<1>4. ASSUME NEW p \in Processes, Evaluate(p)  PROVE StopInv'
  BY <1>4 DEF Evaluate
<1>5. ASSUME NEW p \in Processes, Store(p)  PROVE StopInv'
  <2>1. status'.state # "starting"
    BY <1>5 DEF Store, StartedInv
  <2>. QED  BY <1>5, <2>1 DEF Store
<1>6. CASE Boot \/ SetStatusSink \/ OnReady
  BY <1>6 DEF Boot, SetStatusSink, OnReady
<1>7. CASE Report
  <2>1. CASE stopping
    <3>1. (current # None) = FALSE
      BY <2>1
    <3>2. held' = [held EXCEPT ![Main] = StatusOf("config_error", FALSE, FALSE)]
      <4>. HIDE DEF TypeOK, WayInv, StatusOf
      <4>1. status.state # "starting"
        BY <2>1
      <4>. QED  BY <1>7, <3>1, <4>1, Zenon DEF Report
    <3>. QED  BY <1>7, <2>1, <3>2 DEF Report
  <2>2. CASE ~stopping
    BY <1>7, <2>2 DEF Report
  <2>. QED  BY <2>1, <2>2
<1>8. CASE Stopped
  BY <1>8 DEF Stopped, ServersDone
<1>9. CASE Succeed \/ Fail
  BY <1>9 DEF Succeed, Fail, Called
<1>10. CASE Shutdown
  BY <1>10 DEF Shutdown, Called, StartedInv
<1>11. ASSUME NEW s \in Serves, Lose(s)  PROVE StopInv'
  BY <1>11 DEF Lose
<1>12. ASSUME NEW s \in Serves, Check(s)  PROVE StopInv'
  BY <1>12 DEF Check
<1>13. ASSUME NEW r \in Requests, RequestLogs(r)  PROVE StopInv'
  BY <1>13 DEF RequestLogs
<1>14. CASE UNCHANGED vars
  BY <1>14 DEF vars
<1>. QED
  BY <1>1, <1>2, <1>3, <1>4, <1>5, <1>6, <1>7, <1>8, <1>9, <1>10, <1>11, <1>12, <1>13, <1>14, Zenon
  DEF Next, Step, Alarm, Publish, MainStep, Terminated

\* The inductive invariant of the status on its way, whatever the number of serve and
\* request goroutines.
THEOREM BoardInductive == Spec => []IInv
<1>1. IInv /\ [Next]_vars => IInv'
  BY TypeStep, WayStep, SentStep, StartedStep, StopStep DEF IInv
<1>. QED  BY InitInv, <1>1, PTL DEF Spec

\* The types of board, tray and goroutines; whoever raises the alarm holds the log.
THEOREM BoardTypeCorrect == Spec => []TypeOK
<1>1. IInv => TypeOK
  BY DEF IInv
<1>. QED  BY BoardInductive, <1>1, PTL

\* tray.go:77 for every number of goroutines: at rest the tray shows a status that one
\* of them sent last, whether or not the menu existed when it came.
THEOREM TrayIsUpToDate == Spec => []TrayShowsALastStatus
<1>1. IInv => TrayShowsALastStatus
  BY DEF IInv, SentInv, TrayShowsALastStatus, AtRest, Processes
<1>. QED  BY BoardInductive, <1>1, PTL

\* controller.go:240 for every number of goroutines: behind the wait for the serve
\* goroutines nothing that names a listener goes on the board, whoever was late.
THEOREM NothingServesAfterStop == Spec => NoListenerAfterStop
<1>. DEFINE Kept  == status'.state = status.state /\ status'.address = status.address
            Ended == status'.state \in {"stopped", "config_error"} /\ ~status'.address
<1>1. IInv /\ [Next]_vars => [stopping /\ pc[Main] # "wait" => Kept \/ Ended]_vars
  <2>. SUFFICES ASSUME IInv, [Next]_vars, stopping, pc[Main] # "wait"
                PROVE  Kept \/ Ended
    OBVIOUS
  <2>. USE DEF IInv, TypeOK, Processes, board
  <2>1. ASSUME NEW p \in Processes, AlarmStore(p)  PROVE Kept
    BY <2>1 DEF AlarmStore, StatusOf
  <2>2. ASSUME NEW p \in Processes, Store(p)  PROVE Ended
    <3>1. p = Main
      BY <2>2 DEF Store, WayInv, StopInv, Alarming
    <3>. QED  BY <2>2, <3>1 DEF Store, StopInv, Publishing
  <2>3. CASE UNCHANGED status
    BY <2>3
  <2>4. (\E p \in Processes : AlarmStore(p) \/ Store(p)) \/ UNCHANGED status
    BY Zenon DEF Next, Step, Alarm, Publish, MainStep, Terminated, vars, Log, AlarmDeliver, Evaluate,
      DeliverStatus, Boot, SetStatusSink, Report, Stopped, OnReady, Succeed, Fail, Shutdown, Lose,
      Check, RequestLogs
  <2>. QED  BY <2>1, <2>2, <2>3, <2>4
<1>. QED  BY BoardInductive, <1>1, PTL DEF Spec, NoListenerAfterStop

-----------------------------------------------------------------------------
(* The alarm of the log. *)

\* An alarm under way says what it is for, its log is no longer available, a tray that
\* nobody told anything has what New gave it, and the sink is set once.
AlarmInv ==
  /\ \A p \in Processes : pc[p] = "alarmDeliver" => ~held[p].logging
  /\ logHolder # None => ~available
  /\ ~sink => queued = Blank
  /\ sink => pc[Main] \notin {"boot", "install"} /\ after[Main] # "install"
  /\ pc[Main] \in {"boot", "install"} => after[Main] = "idle"

\* The safety half of AlarmShown: the log is released by nobody who has not shown the
\* alarm, or left a tray that has yet to be told anything and shows it from the start.
AlarmBeforeRelease ==
  [][logHolder # None /\ logHolder' = None => ~queued'.logging]_vars

\* The log has failed and no goroutine has the status of before in hand.
Settled == ~available /\ sink /\ \A p \in Processes : ~held[p].logging

\* Only a status put together before the disk failed can take the alarm back: once none is
\* under way, none ever is, and an alarm in the tray stands.
AlarmStands == [][Settled => Settled' /\ (queued'.logging => queued.logging)]_vars

LEMMA AlarmStep == TypeOK /\ WayInv /\ AlarmInv /\ [Next]_vars => AlarmInv'
<1>. SUFFICES ASSUME TypeOK, WayInv, AlarmInv, [Next]_vars  PROVE AlarmInv'
  OBVIOUS
<1>. USE ProcessAssumption DEF TypeOK, WayInv, AlarmInv, Alarming, Processes, Goto, LogThen,
         ThenLog, Hold, StatusOf, board, life, tray
<1>1. ASSUME NEW p \in Processes, Log(p)  PROVE AlarmInv'
  BY <1>1 DEF Log
<1>2. ASSUME NEW p \in Processes, AlarmStore(p)  PROVE AlarmInv'
  <2>. held'[p].logging = FALSE
    BY <1>2 DEF AlarmStore
  <2>. QED  BY <1>2 DEF AlarmStore
<1>3. ASSUME NEW p \in Processes, AlarmDeliver(p) \/ DeliverStatus(p)  PROVE AlarmInv'
  BY <1>3 DEF AlarmDeliver, DeliverStatus, Deliver
<1>4. ASSUME NEW p \in Processes, Evaluate(p) \/ Store(p)  PROVE AlarmInv'
  BY <1>4 DEF Evaluate, Store
<1>5. CASE Boot
  <2>. sink = FALSE /\ sink' = sink
    BY <1>5 DEF Boot
  <2>. QED  BY <1>5 DEF Boot
<1>10. CASE SetStatusSink
  <2>. sink' = TRUE
    BY <1>10 DEF SetStatusSink
  <2>. QED  BY <1>10 DEF SetStatusSink
<1>11. CASE OnReady
  BY <1>11 DEF OnReady
<1>6. CASE Report \/ Stopped \/ Succeed \/ Fail \/ Shutdown
  BY <1>6 DEF Report, Stopped, Succeed, Fail, Shutdown, Called
<1>7. ASSUME NEW s \in Serves, Lose(s) \/ Check(s)  PROVE AlarmInv'
  BY <1>7 DEF Lose, Check
<1>8. ASSUME NEW r \in Requests, RequestLogs(r)  PROVE AlarmInv'
  BY <1>8 DEF RequestLogs
<1>9. CASE UNCHANGED vars
  BY <1>9 DEF vars
<1>. QED
  BY <1>1, <1>2, <1>3, <1>4, <1>5, <1>6, <1>7, <1>8, <1>9, <1>10, <1>11, Zenon
  DEF Next, Step, Alarm, Publish, MainStep, Terminated

LEMMA AlarmInductive == Spec => [](IInv /\ AlarmInv)
<1>1. Init => AlarmInv
  BY ProcessAssumption DEF Init, AlarmInv, Processes
<1>2. IInv /\ AlarmInv /\ [Next]_vars => AlarmInv'
  BY AlarmStep DEF IInv
<1>. QED  BY BoardInductive, <1>1, <1>2, PTL DEF Spec

\* README.md:285, for every number of goroutines: the goroutine that finds the disk failing
\* has shown the alarm when it gives up the log, before or after the sink and the menu
\* exist.
THEOREM AlarmIsShown == Spec => AlarmBeforeRelease
<1>1. IInv /\ AlarmInv /\ [Next]_vars =>
        [logHolder # None /\ logHolder' = None => ~queued'.logging]_vars
  <2>. SUFFICES ASSUME IInv, AlarmInv, Next, logHolder # None, logHolder' = None
                PROVE  ~queued'.logging
    BY DEF vars
  <2>1. PICK p \in Processes : AlarmDeliver(p)
    BY Zenon DEF Next, Step, Alarm, Publish, MainStep, Terminated, vars, Log, AlarmStore, Evaluate,
      Store, DeliverStatus, Boot, SetStatusSink, Report, Stopped, OnReady, Succeed, Fail,
      Shutdown, Lose, Check, RequestLogs
  <2>. QED
    BY <2>1 DEF AlarmDeliver, Deliver, SetStatus, AlarmInv, Blank, StatusOf
<1>. QED  BY AlarmInductive, <1>1, PTL DEF Spec, AlarmBeforeRelease

\* The bounds of what controller.go:369 can do to an alarm: the statuses that were under
\* way when the disk failed, and no later one.
THEOREM AlarmIsKept == Spec => AlarmStands
<1>1. IInv /\ AlarmInv /\ [Next]_vars => [Settled => Settled' /\ (queued'.logging => queued.logging)]_vars
  <2>. SUFFICES ASSUME IInv, AlarmInv, Next, Settled
                PROVE  Settled' /\ (queued'.logging => queued.logging)
    BY DEF vars, Settled
  <2>. DEFINE Quiet(s) == ~s.logging
              Takes(p, s) == held' = [held EXCEPT ![p] = s] /\ Quiet(s)
  <2>0. /\ \A state, address : Quiet(StatusOf(state, address, FALSE))
        /\ Quiet(Blank) /\ Main \in Processes /\ Serves \subseteq Processes
    BY DEF StatusOf, Blank, Processes
  <2>1. (available' = available \/ available' = FALSE) /\ (sink' = sink \/ sink' = TRUE)
    BY Zenon DEF Next, Step, Alarm, Publish, MainStep, Terminated, vars, board, Log, AlarmStore,
      AlarmDeliver, Evaluate, Store, DeliverStatus, Boot, SetStatusSink, Report, Stopped,
      OnReady, Succeed, Fail, Shutdown, Lose, Check, RequestLogs
  <2>2. queued' = queued \/ \E p \in Processes : queued' = held[p]
    BY Zenon DEF Next, Step, Alarm, Publish, MainStep, Terminated, vars, tray, Log, AlarmStore,
      AlarmDeliver, Evaluate, Store, DeliverStatus, Boot, SetStatusSink, Report, Stopped,
      OnReady, Succeed, Fail, Shutdown, Lose, Check, RequestLogs, Deliver, SetStatus
  <2>3. held' = held \/ \E p \in Processes : \E s : Takes(p, s)
    <3>1. ASSUME NEW p \in Processes, AlarmStore(p)  PROVE \E s : Takes(p, s)
      <4>. held' = [held EXCEPT ![p] = StatusOf(status.state, status.address, FALSE)]
        BY <3>1, Zenon DEF AlarmStore
      <4>. QED  BY <2>0, Zenon
    <3>2. ASSUME NEW p \in Processes, AlarmDeliver(p) \/ DeliverStatus(p)
          PROVE  \E s : Takes(p, s)
      BY <2>0, <3>2, Zenon DEF AlarmDeliver, DeliverStatus, Deliver
    <3>3. ASSUME NEW p \in Processes, Evaluate(p)  PROVE \E s : Takes(p, s)
      <4>1. available = FALSE
        BY DEF Settled, IInv, TypeOK
      <4>2. held' = [held EXCEPT ![p] = StatusOf(held[p].state, held[p].address, FALSE)]
        BY <3>3, <4>1, Zenon DEF Evaluate
      <4>. QED  BY <2>0, <4>2, Zenon
    <3>4. ~SetStatusSink
      <4>1. sink => pc[Main] # "install"
        BY DEF AlarmInv
      <4>. QED  BY <4>1, Zenon DEF SetStatusSink, Settled
    <3>5. CASE Report \/ Stopped \/ Succeed
      <4>. \E state, address : held' = [held EXCEPT ![Main] = StatusOf(state, address, FALSE)]
        BY <3>5, Zenon DEF Report, Stopped, Succeed, Hold
      <4>. QED  BY <2>0, Zenon
    <3>6. ASSUME NEW s \in Serves, Check(s)  PROVE held' = held \/ \E x : Takes(s, x)
      BY <2>0, <3>6, Zenon DEF Check, Hold
    <3>. HIDE DEF Takes
    <3>. QED
      BY <2>0, <3>1, <3>2, <3>3, <3>4, <3>5, <3>6, Zenon DEF Next, Step, Alarm, Publish, MainStep,
        Terminated, vars, Log, Store, Boot, OnReady, Fail, Shutdown, Lose, RequestLogs
  <2>4. \A p \in Processes : ~held'[p].logging
    <3>1. CASE held' = held
      BY <3>1, Zenon DEF Settled
    <3>2. ASSUME NEW p \in Processes, NEW s, Takes(p, s), NEW q \in Processes
          PROVE  ~held'[q].logging
      <4>1. held'[q] = s \/ held'[q] = held[q]
        BY <3>2 DEF IInv, TypeOK
      <4>. QED  BY <3>2, <4>1, Zenon DEF Settled
    <3>. QED  BY <2>3, <3>1, <3>2, Zenon
  <2>5. queued'.logging => queued.logging
    BY <2>2, Zenon DEF Settled
  <2>6. ~available' /\ sink'
    <3>. available = FALSE /\ sink = TRUE
      BY DEF Settled, IInv, TypeOK
    <3>. available' = FALSE /\ sink' = TRUE
      BY <2>1
    <3>. QED  OBVIOUS
  <2>. QED  BY <2>4, <2>5, <2>6, Zenon DEF Settled
<1>. QED  BY AlarmInductive, <1>1, PTL DEF Spec, AlarmStands

=============================================================================
