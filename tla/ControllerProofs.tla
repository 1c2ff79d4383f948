-------------------------- MODULE ControllerProofs --------------------------
(***************************************************************************)
(* Proofs about Controller, for every set of configurations, ports,        *)
(* deployments and connections.  The invariant IInv of ControllerInv is    *)
(* shown inductive, one lemma for each of its parts and one step for each  *)
(* action; the safety properties, the action properties and the            *)
(* refinement of Service follow from it.                                   *)
(***************************************************************************)
EXTENDS ControllerInv, Integers, TLAPS

USE PortOfAssumption, LevelOfAssumption, NoneAssumption

\* Every step keeps the variables in their types: the local variables of Start
\* and Reload are set wherever a step reads them.
LEMMA TypeStep ==
  IInv /\ [Next]_vars => TypeOK'
<1> SUFFICES ASSUME IInv, [Next]_vars PROVE TypeOK'
  OBVIOUS
<1> USE DEF IInv, TypeOK, vars, service, locks, servers, main, locals, reload,
            Maybe, StartPC, StopPC, Free, MainPC, ReloadPC, ServePC, DrainPC,
            StatusState, MainInv, ReloadInv, OwnerInv, LockInv, StopChecked,
            LifeInv
<1>1. CASE StartConfigFails  BY <1>1 DEF StartConfigFails, Publish, Status
<1>2. CASE StartLoad  BY <1>2 DEF StartLoad
<1>3. CASE StartListenFails  BY <1>3 DEF StartListenFails, Publish, Status
<1>4. CASE StartListen  BY <1>4 DEF StartListen, PrepareDeployment, PortFree, AddressOf
<1>5. CASE StartUpdate  BY <1>5 DEF StartUpdate
<1>6. CASE StartCommit  BY <1>6 DEF StartCommit, InstallDeployment, Unlock
<1>7. CASE StartPublish  BY <1>7 DEF StartPublish, PublishRunning, Publish, Status
<1>8. CASE Quit  BY <1>8 DEF Quit
<1>9. CASE ShutdownLock  BY <1>9 DEF ShutdownLock, ShutdownLocks
<1>10. CASE ShutdownClose  BY <1>10 DEF ShutdownClose, BeginShutdown
<1>11. CASE ShutdownDrain  BY <1>11 DEF ShutdownDrain, EndShutdown
<1>12. CASE ShutdownFinish  BY <1>12 DEF ShutdownFinish, ServersDone, Publish, Status
<1>13. CASE Exit  BY <1>13 DEF Exit, ReloadEnds
<1>14. CASE ReloadLock  BY <1>14 DEF ReloadLock
<1>15. CASE ReloadLoadFails  BY <1>15 DEF ReloadLoadFails
<1>16. CASE ReloadLoad  BY <1>16 DEF ReloadLoad
<1>17. CASE ReloadStopping  BY <1>17 DEF ReloadStopping, ReloadEnds
<1>18. CASE ReloadCheck  BY <1>18 DEF ReloadCheck, SamePort, AddressOf
<1>19. CASE ReloadSame  BY <1>19 DEF ReloadSame, ReloadEnds
<1>20. CASE ReloadSameCommit  BY <1>20 DEF ReloadSameCommit, RecordConfig, Unlock
<1>21. CASE ReloadListenFails  BY <1>21 DEF ReloadListenFails
<1>22. CASE ReloadListen
  BY <1>22 DEF ReloadListen, PrepareDeployment, PortFree, AddressOf
<1>23. CASE ReloadSwap  BY <1>23 DEF ReloadSwap, Replaced, ReloadEnds
<1>24. CASE ReloadSwapCommit  BY <1>24 DEF ReloadSwapCommit, InstallDeployment, Unlock
<1>25. CASE ReloadPublish
  BY <1>25 DEF ReloadPublish, PublishRunning, Publish, Status, ReloadEnds
<1>26. CASE ReloadFail  BY <1>26 DEF ReloadFail
<1>27. CASE ReloadReport
  BY <1>27 DEF ReloadReport, FailureStatus, Publish, Status, AddressOf, ReloadEnds
<1>28. CASE \E d \in Deployment : ServeStart(d)  BY <1>28 DEF ServeStart
<1>29. CASE \E d \in Deployment : ServeRefused(d)  BY <1>29 DEF ServeRefused
<1>30. CASE \E d \in Deployment : ServeClosed(d)  BY <1>30 DEF ServeClosed
<1>31. CASE \E d \in Deployment : ServeFail(d)  BY <1>31 DEF ServeFail
<1>32. CASE \E d \in Deployment : ServeLost(d)  BY <1>32 DEF ServeLost, IsCurrent
<1>33. CASE \E d \in Deployment : ServePublish(d)
  BY <1>33 DEF ServePublish, Publish, Status, AddressOf
<1>34. CASE \E d \in Deployment : DrainClose(d)  BY <1>34 DEF DrainClose, BeginShutdown
<1>35. CASE \E d \in Deployment : DrainReturn(d)  BY <1>35 DEF DrainReturn, EndShutdown
<1>36. CASE \E d \in Deployment, k \in Conn : ConnOpen(d, k) \/ ConnClose(d, k)
  BY <1>36 DEF ConnOpen, ConnClose
<1>37. CASE UNCHANGED vars  BY <1>37, SMTT(30)
<1> QED
  BY <1>1, <1>2, <1>3, <1>4, <1>5, <1>6, <1>7, <1>8, <1>9, <1>10, <1>11,
     <1>12, <1>13, <1>14, <1>15, <1>16, <1>17, <1>18, <1>19, <1>20, <1>21,
     <1>22, <1>23, <1>24, <1>25, <1>26, <1>27, <1>28, <1>29, <1>30, <1>31,
     <1>32, <1>33, <1>34, <1>35, <1>36, <1>37
     DEF Next, Start, Shutdown, ReloadStep, ServeStep, DrainStep, Environment, Terminated

\* Every step keeps the mutexes with the goroutines whose program counters say they
\* hold them, c.stopping false while Reload is past its first test, and the local
\* variables of Start, Shutdown and Reload set where they are used.
LEMMA ControlStep ==
  IInv /\ [Next]_vars => (LockInv /\ MainInv /\ ReloadInv)'
<1> SUFFICES ASSUME IInv, [Next]_vars PROVE (LockInv /\ MainInv /\ ReloadInv)'
  OBVIOUS
<1> USE DEF IInv, TypeOK, vars, service, locks, servers, main, locals, reload,
            Maybe, StartPC, StopPC, Free, MainPC, ReloadPC, ServePC, DrainPC,
            LockInv, StopChecked, MainInv, OwnerInv, CurrentServes, ReloadInv
<1>1. CASE StartConfigFails  BY <1>1 DEF StartConfigFails, Publish, Status
<1>2. CASE StartLoad  BY <1>2 DEF StartLoad
<1>3. CASE StartListenFails  BY <1>3 DEF StartListenFails, Publish, Status
<1>4. CASE StartListen  BY <1>4 DEF StartListen, PrepareDeployment, PortFree, AddressOf
<1>5. CASE StartUpdate  BY <1>5 DEF StartUpdate
<1>6. CASE StartCommit  BY <1>6 DEF StartCommit, InstallDeployment, Unlock
<1>7. CASE StartPublish  BY <1>7 DEF StartPublish, PublishRunning, Publish, Status
<1>8. CASE Quit  BY <1>8 DEF Quit
<1>9. CASE ShutdownLock  BY <1>9 DEF ShutdownLock, ShutdownLocks
<1>10. CASE ShutdownClose  BY <1>10 DEF ShutdownClose, BeginShutdown
<1>11. CASE ShutdownDrain  BY <1>11 DEF ShutdownDrain, EndShutdown
<1>12. CASE ShutdownFinish  BY <1>12 DEF ShutdownFinish, ServersDone, Publish, Status
<1>13. CASE Exit  BY <1>13 DEF Exit, ReloadEnds
<1>14. CASE ReloadLock  BY <1>14 DEF ReloadLock
<1>15. CASE ReloadLoadFails  BY <1>15 DEF ReloadLoadFails
<1>16. CASE ReloadLoad  BY <1>16 DEF ReloadLoad
<1>17. CASE ReloadStopping  BY <1>17 DEF ReloadStopping, ReloadEnds
<1>18. CASE ReloadCheck  BY <1>18 DEF ReloadCheck, SamePort, AddressOf
<1>19. CASE ReloadSame  BY <1>19 DEF ReloadSame, ReloadEnds
<1>20. CASE ReloadSameCommit  BY <1>20 DEF ReloadSameCommit, RecordConfig, Unlock
<1>21. CASE ReloadListenFails  BY <1>21 DEF ReloadListenFails
<1>22. CASE ReloadListen
  BY <1>22 DEF ReloadListen, PrepareDeployment, PortFree, AddressOf
<1>23. CASE ReloadSwap  BY <1>23 DEF ReloadSwap, Replaced, ReloadEnds
<1>24. CASE ReloadSwapCommit  BY <1>24 DEF ReloadSwapCommit, InstallDeployment, Unlock
<1>25. CASE ReloadPublish
  BY <1>25 DEF ReloadPublish, PublishRunning, Publish, Status, ReloadEnds
<1>26. CASE ReloadFail  BY <1>26 DEF ReloadFail
<1>27. CASE ReloadReport
  BY <1>27 DEF ReloadReport, FailureStatus, Publish, Status, AddressOf, ReloadEnds
<1>28. CASE \E d \in Deployment : ServeStart(d)  BY <1>28 DEF ServeStart
<1>29. CASE \E d \in Deployment : ServeRefused(d)  BY <1>29 DEF ServeRefused
<1>30. CASE \E d \in Deployment : ServeClosed(d)  BY <1>30 DEF ServeClosed
<1>31. CASE \E d \in Deployment : ServeFail(d)  BY <1>31 DEF ServeFail
<1>32. CASE \E d \in Deployment : ServeLost(d)  BY <1>32 DEF ServeLost, IsCurrent
<1>33. CASE \E d \in Deployment : ServePublish(d)
  BY <1>33 DEF ServePublish, Publish, Status, AddressOf
<1>34. CASE \E d \in Deployment : DrainClose(d)  BY <1>34 DEF DrainClose, BeginShutdown
<1>35. CASE \E d \in Deployment : DrainReturn(d)  BY <1>35 DEF DrainReturn, EndShutdown
<1>36. CASE \E d \in Deployment, k \in Conn : ConnOpen(d, k) \/ ConnClose(d, k)
  BY <1>36 DEF ConnOpen, ConnClose
<1>37. CASE UNCHANGED vars  BY <1>37, SMTT(30)
<1> QED
  BY <1>1, <1>2, <1>3, <1>4, <1>5, <1>6, <1>7, <1>8, <1>9, <1>10, <1>11,
     <1>12, <1>13, <1>14, <1>15, <1>16, <1>17, <1>18, <1>19, <1>20, <1>21,
     <1>22, <1>23, <1>24, <1>25, <1>26, <1>27, <1>28, <1>29, <1>30, <1>31,
     <1>32, <1>33, <1>34, <1>35, <1>36, <1>37
     DEF Next, Start, Shutdown, ReloadStep, ServeStep, DrainStep, Environment, Terminated

\* Every step keeps the life cycle of a deployment (prepared, served, failed or shut
\* down, drained) and keeps it in one hand: what Start or Reload prepared is not
\* served yet, and what Shutdown or a drain closes is not in force.
LEMMA LifeStep ==
  IInv /\ [Next]_vars => (LifeInv /\ OwnerInv)'
<1> SUFFICES ASSUME IInv, [Next]_vars PROVE (LifeInv /\ OwnerInv)'
  OBVIOUS
<1> USE DEF IInv, TypeOK, vars, service, locks, servers, main, locals, reload,
            Maybe, StartPC, StopPC, Free, MainPC, ReloadPC, ServePC, DrainPC,
            LockInv, MainInv, ReloadInv, LifeInv, OwnerInv, CurrentServes,
            Prepared, Served, StoppedIsQuiet, StopChecked
<1>1. CASE StartConfigFails  BY <1>1 DEF StartConfigFails, Publish, Status
<1>2. CASE StartLoad  BY <1>2 DEF StartLoad
<1>3. CASE StartListenFails  BY <1>3 DEF StartListenFails, Publish, Status
<1>4. CASE StartListen  BY <1>4 DEF StartListen, PrepareDeployment, PortFree, AddressOf
<1>5. CASE StartUpdate  BY <1>5 DEF StartUpdate
<1>6. CASE StartCommit  BY <1>6 DEF StartCommit, InstallDeployment, Unlock
<1>7. CASE StartPublish  BY <1>7 DEF StartPublish, PublishRunning, Publish, Status
<1>8. CASE Quit  BY <1>8 DEF Quit
<1>9. CASE ShutdownLock  BY <1>9 DEF ShutdownLock, ShutdownLocks
<1>10. CASE ShutdownClose  BY <1>10 DEF ShutdownClose, BeginShutdown
<1>11. CASE ShutdownDrain  BY <1>11 DEF ShutdownDrain, EndShutdown
<1>12. CASE ShutdownFinish  BY <1>12 DEF ShutdownFinish, ServersDone, Publish, Status
<1>13. CASE Exit  BY <1>13 DEF Exit, ReloadEnds
<1>14. CASE ReloadLock  BY <1>14 DEF ReloadLock
<1>15. CASE ReloadLoadFails  BY <1>15 DEF ReloadLoadFails
<1>16. CASE ReloadLoad  BY <1>16 DEF ReloadLoad
<1>17. CASE ReloadStopping  BY <1>17 DEF ReloadStopping, ReloadEnds
<1>18. CASE ReloadCheck  BY <1>18 DEF ReloadCheck, SamePort, AddressOf
<1>19. CASE ReloadSame  BY <1>19 DEF ReloadSame, ReloadEnds
<1>20. CASE ReloadSameCommit  BY <1>20 DEF ReloadSameCommit, RecordConfig, Unlock
<1>21. CASE ReloadListenFails  BY <1>21 DEF ReloadListenFails
<1>22. CASE ReloadListen
  BY <1>22 DEF ReloadListen, PrepareDeployment, PortFree, AddressOf
<1>23. CASE ReloadSwap  BY <1>23 DEF ReloadSwap, Replaced, ReloadEnds
<1>24. CASE ReloadSwapCommit  BY <1>24 DEF ReloadSwapCommit, InstallDeployment, Unlock
<1>25. CASE ReloadPublish
  BY <1>25 DEF ReloadPublish, PublishRunning, Publish, Status, ReloadEnds
<1>26. CASE ReloadFail  BY <1>26 DEF ReloadFail
<1>27. CASE ReloadReport
  BY <1>27 DEF ReloadReport, FailureStatus, Publish, Status, AddressOf, ReloadEnds
<1>28. CASE \E d \in Deployment : ServeStart(d)  BY <1>28 DEF ServeStart
<1>29. CASE \E d \in Deployment : ServeRefused(d)  BY <1>29 DEF ServeRefused
<1>30. CASE \E d \in Deployment : ServeClosed(d)  BY <1>30 DEF ServeClosed
<1>31. CASE \E d \in Deployment : ServeFail(d)  BY <1>31 DEF ServeFail
<1>32. CASE \E d \in Deployment : ServeLost(d)  BY <1>32 DEF ServeLost, IsCurrent
<1>33. CASE \E d \in Deployment : ServePublish(d)
  BY <1>33 DEF ServePublish, Publish, Status, AddressOf
<1>34. CASE \E d \in Deployment : DrainClose(d)  BY <1>34 DEF DrainClose, BeginShutdown
<1>35. CASE \E d \in Deployment : DrainReturn(d)  BY <1>35 DEF DrainReturn, EndShutdown
<1>36. CASE \E d \in Deployment, k \in Conn : ConnOpen(d, k) \/ ConnClose(d, k)
  BY <1>36 DEF ConnOpen, ConnClose
<1>37. CASE UNCHANGED vars  BY <1>37, SMTT(30)
<1> QED
  BY <1>1, <1>2, <1>3, <1>4, <1>5, <1>6, <1>7, <1>8, <1>9, <1>10, <1>11,
     <1>12, <1>13, <1>14, <1>15, <1>16, <1>17, <1>18, <1>19, <1>20, <1>21,
     <1>22, <1>23, <1>24, <1>25, <1>26, <1>27, <1>28, <1>29, <1>30, <1>31,
     <1>32, <1>33, <1>34, <1>35, <1>36, <1>37
     DEF Next, Start, Shutdown, ReloadStep, ServeStep, DrainStep, Environment, Terminated

\* Every step keeps open listeners with somebody who closes them, and keeps what has
\* been shut down closed and empty.
LEMMA ListenerStep ==
  IInv /\ [Next]_vars => (NoLeakedListener /\ StoppedIsQuiet /\ DrainInv)'
<1> SUFFICES ASSUME IInv, [Next]_vars
             PROVE (NoLeakedListener /\ StoppedIsQuiet /\ DrainInv)'
  OBVIOUS
<1> USE DEF IInv, TypeOK, vars, service, locks, servers, main, locals, reload,
            Maybe, StartPC, StopPC, Free, MainPC, ReloadPC, ServePC, DrainPC,
            LockInv, StopChecked, MainInv, ReloadInv, LifeInv, OwnerInv,
            CurrentServes, Prepared, Served, NoLeakedListener, StoppedIsQuiet,
            DrainInv
<1>1. CASE StartConfigFails  BY <1>1 DEF StartConfigFails, Publish, Status
<1>2. CASE StartLoad  BY <1>2 DEF StartLoad
<1>3. CASE StartListenFails  BY <1>3 DEF StartListenFails, Publish, Status
<1>4. CASE StartListen  BY <1>4 DEF StartListen, PrepareDeployment, PortFree, AddressOf
<1>5. CASE StartUpdate  BY <1>5 DEF StartUpdate
<1>6. CASE StartCommit  BY <1>6 DEF StartCommit, InstallDeployment, Unlock
<1>7. CASE StartPublish  BY <1>7 DEF StartPublish, PublishRunning, Publish, Status
<1>8. CASE Quit  BY <1>8 DEF Quit
<1>9. CASE ShutdownLock  BY <1>9 DEF ShutdownLock, ShutdownLocks
<1>10. CASE ShutdownClose  BY <1>10 DEF ShutdownClose, BeginShutdown
<1>11. CASE ShutdownDrain  BY <1>11 DEF ShutdownDrain, EndShutdown
<1>12. CASE ShutdownFinish  BY <1>12 DEF ShutdownFinish, ServersDone, Publish, Status
<1>13. CASE Exit  BY <1>13 DEF Exit, ReloadEnds
<1>14. CASE ReloadLock  BY <1>14 DEF ReloadLock
<1>15. CASE ReloadLoadFails  BY <1>15 DEF ReloadLoadFails
<1>16. CASE ReloadLoad  BY <1>16 DEF ReloadLoad
<1>17. CASE ReloadStopping  BY <1>17 DEF ReloadStopping, ReloadEnds
<1>18. CASE ReloadCheck  BY <1>18 DEF ReloadCheck, SamePort, AddressOf
<1>19. CASE ReloadSame  BY <1>19 DEF ReloadSame, ReloadEnds
<1>20. CASE ReloadSameCommit  BY <1>20 DEF ReloadSameCommit, RecordConfig, Unlock
<1>21. CASE ReloadListenFails  BY <1>21 DEF ReloadListenFails
<1>22. CASE ReloadListen
  BY <1>22 DEF ReloadListen, PrepareDeployment, PortFree, AddressOf
<1>23. CASE ReloadSwap  BY <1>23 DEF ReloadSwap, Replaced, ReloadEnds
<1>24. CASE ReloadSwapCommit  BY <1>24 DEF ReloadSwapCommit, InstallDeployment, Unlock
<1>25. CASE ReloadPublish
  BY <1>25 DEF ReloadPublish, PublishRunning, Publish, Status, ReloadEnds
<1>26. CASE ReloadFail  BY <1>26 DEF ReloadFail
<1>27. CASE ReloadReport
  BY <1>27 DEF ReloadReport, FailureStatus, Publish, Status, AddressOf, ReloadEnds
<1>28. CASE \E d \in Deployment : ServeStart(d)  BY <1>28 DEF ServeStart
<1>29. CASE \E d \in Deployment : ServeRefused(d)  BY <1>29 DEF ServeRefused
<1>30. CASE \E d \in Deployment : ServeClosed(d)  BY <1>30 DEF ServeClosed
<1>31. CASE \E d \in Deployment : ServeFail(d)  BY <1>31 DEF ServeFail
<1>32. CASE \E d \in Deployment : ServeLost(d)  BY <1>32 DEF ServeLost, IsCurrent
<1>33. CASE \E d \in Deployment : ServePublish(d)
  BY <1>33 DEF ServePublish, Publish, Status, AddressOf
<1>34. CASE \E d \in Deployment : DrainClose(d)  BY <1>34 DEF DrainClose, BeginShutdown
<1>35. CASE \E d \in Deployment : DrainReturn(d)  BY <1>35 DEF DrainReturn, EndShutdown
<1>36. CASE \E d \in Deployment, k \in Conn : ConnOpen(d, k) \/ ConnClose(d, k)
  BY <1>36 DEF ConnOpen, ConnClose
<1>37. CASE UNCHANGED vars  BY <1>37, SMTT(30)
<1> QED
  BY <1>1, <1>2, <1>3, <1>4, <1>5, <1>6, <1>7, <1>8, <1>9, <1>10, <1>11,
     <1>12, <1>13, <1>14, <1>15, <1>16, <1>17, <1>18, <1>19, <1>20, <1>21,
     <1>22, <1>23, <1>24, <1>25, <1>26, <1>27, <1>28, <1>29, <1>30, <1>31,
     <1>32, <1>33, <1>34, <1>35, <1>36, <1>37
     DEF Next, Start, Shutdown, ReloadStep, ServeStep, DrainStep, Environment, Terminated

\* Every step keeps the ports of open listeners apart from one another and from
\* the port of the deployment in force.
LEMMA PortStep ==
  IInv /\ [Next]_vars => PortInv'
<1> SUFFICES ASSUME IInv, [Next]_vars PROVE PortInv'
  OBVIOUS
<1> USE DEF IInv, TypeOK, vars, service, locks, servers, main, locals, reload,
            Maybe, StartPC, StopPC, Free, MainPC, ReloadPC, ServePC, DrainPC,
            LockInv, StopChecked, MainInv, ReloadInv, LifeInv, OwnerInv,
            CurrentServes, Prepared, Served, PortInv, AddressOf
<1>1. CASE StartConfigFails  BY <1>1 DEF StartConfigFails, Publish, Status
<1>2. CASE StartLoad  BY <1>2 DEF StartLoad
<1>3. CASE StartListenFails  BY <1>3 DEF StartListenFails, Publish, Status
<1>4. CASE StartListen  BY <1>4 DEF StartListen, PrepareDeployment, PortFree
<1>5. CASE StartUpdate  BY <1>5 DEF StartUpdate
<1>6. CASE StartCommit  BY <1>6 DEF StartCommit, InstallDeployment, Unlock
<1>7. CASE StartPublish  BY <1>7 DEF StartPublish, PublishRunning, Publish, Status
<1>8. CASE Quit  BY <1>8 DEF Quit
<1>9. CASE ShutdownLock  BY <1>9 DEF ShutdownLock, ShutdownLocks
<1>10. CASE ShutdownClose  BY <1>10 DEF ShutdownClose, BeginShutdown
<1>11. CASE ShutdownDrain  BY <1>11 DEF ShutdownDrain, EndShutdown
<1>12. CASE ShutdownFinish  BY <1>12 DEF ShutdownFinish, ServersDone, Publish, Status
<1>13. CASE Exit  BY <1>13 DEF Exit, ReloadEnds
<1>14. CASE ReloadLock  BY <1>14 DEF ReloadLock
<1>15. CASE ReloadLoadFails  BY <1>15 DEF ReloadLoadFails
<1>16. CASE ReloadLoad  BY <1>16 DEF ReloadLoad
<1>17. CASE ReloadStopping  BY <1>17 DEF ReloadStopping, ReloadEnds
<1>18. CASE ReloadCheck  BY <1>18 DEF ReloadCheck, SamePort
<1>19. CASE ReloadSame  BY <1>19 DEF ReloadSame, ReloadEnds
<1>20. CASE ReloadSameCommit  BY <1>20 DEF ReloadSameCommit, RecordConfig, Unlock
<1>21. CASE ReloadListenFails  BY <1>21 DEF ReloadListenFails
<1>22. CASE ReloadListen  BY <1>22 DEF ReloadListen, PrepareDeployment, PortFree
<1>23. CASE ReloadSwap  BY <1>23 DEF ReloadSwap, Replaced, ReloadEnds
<1>24. CASE ReloadSwapCommit  BY <1>24 DEF ReloadSwapCommit, InstallDeployment, Unlock
<1>25. CASE ReloadPublish
  BY <1>25 DEF ReloadPublish, PublishRunning, Publish, Status, ReloadEnds
<1>26. CASE ReloadFail  BY <1>26 DEF ReloadFail
<1>27. CASE ReloadReport
  BY <1>27 DEF ReloadReport, FailureStatus, Publish, Status, ReloadEnds
<1>28. CASE \E d \in Deployment : ServeStart(d)  BY <1>28 DEF ServeStart
<1>29. CASE \E d \in Deployment : ServeRefused(d)  BY <1>29 DEF ServeRefused
<1>30. CASE \E d \in Deployment : ServeClosed(d)  BY <1>30 DEF ServeClosed
<1>31. CASE \E d \in Deployment : ServeFail(d)  BY <1>31 DEF ServeFail
<1>32. CASE \E d \in Deployment : ServeLost(d)  BY <1>32 DEF ServeLost, IsCurrent
<1>33. CASE \E d \in Deployment : ServePublish(d)
  BY <1>33 DEF ServePublish, Publish, Status
<1>34. CASE \E d \in Deployment : DrainClose(d)  BY <1>34 DEF DrainClose, BeginShutdown
<1>35. CASE \E d \in Deployment : DrainReturn(d)  BY <1>35 DEF DrainReturn, EndShutdown
<1>36. CASE \E d \in Deployment, k \in Conn : ConnOpen(d, k) \/ ConnClose(d, k)
  BY <1>36 DEF ConnOpen, ConnClose
<1>37. CASE UNCHANGED vars  BY <1>37, SMTT(30)
<1> QED
  BY <1>1, <1>2, <1>3, <1>4, <1>5, <1>6, <1>7, <1>8, <1>9, <1>10, <1>11,
     <1>12, <1>13, <1>14, <1>15, <1>16, <1>17, <1>18, <1>19, <1>20, <1>21,
     <1>22, <1>23, <1>24, <1>25, <1>26, <1>27, <1>28, <1>29, <1>30, <1>31,
     <1>32, <1>33, <1>34, <1>35, <1>36, <1>37
     DEF Next, Start, Shutdown, ReloadStep, ServeStep, DrainStep, Environment, Terminated

\* Every step keeps snapshot, level and deployment in agreement whenever mu is free,
\* and the status in agreement with the deployment in force.
LEMMA SnapshotStep ==
  IInv /\ [Next]_vars => (SnapshotInv /\ StatusInv)'
<1> SUFFICES ASSUME IInv, [Next]_vars PROVE (SnapshotInv /\ StatusInv)'
  OBVIOUS
<1> USE DEF IInv, TypeOK, vars, service, locks, servers, main, locals, reload,
            Maybe, StartPC, StopPC, Free, MainPC, ReloadPC, ServePC, DrainPC,
            LockInv, StopChecked, MainInv, ReloadInv, LifeInv, OwnerInv,
            CurrentServes, Prepared, SnapshotInv, SnapshotCoherent,
            StatusState, StatusInv, AddressOf
<1>1. CASE StartConfigFails  BY <1>1 DEF StartConfigFails, Publish, Status
<1>2. CASE StartLoad  BY <1>2 DEF StartLoad
<1>3. CASE StartListenFails  BY <1>3 DEF StartListenFails, Publish, Status
<1>4. CASE StartListen  BY <1>4 DEF StartListen, PrepareDeployment, PortFree
<1>5. CASE StartUpdate  BY <1>5 DEF StartUpdate
<1>6. CASE StartCommit  BY <1>6 DEF StartCommit, InstallDeployment, Unlock
<1>7. CASE StartPublish  BY <1>7 DEF StartPublish, PublishRunning, Publish, Status
<1>8. CASE Quit  BY <1>8 DEF Quit
<1>9. CASE ShutdownLock  BY <1>9 DEF ShutdownLock, ShutdownLocks
<1>10. CASE ShutdownClose  BY <1>10 DEF ShutdownClose, BeginShutdown
<1>11. CASE ShutdownDrain  BY <1>11 DEF ShutdownDrain, EndShutdown
<1>12. CASE ShutdownFinish  BY <1>12 DEF ShutdownFinish, ServersDone, Publish, Status
<1>13. CASE Exit  BY <1>13 DEF Exit, ReloadEnds
<1>14. CASE ReloadLock  BY <1>14 DEF ReloadLock
<1>15. CASE ReloadLoadFails  BY <1>15 DEF ReloadLoadFails
<1>16. CASE ReloadLoad  BY <1>16 DEF ReloadLoad
<1>17. CASE ReloadStopping  BY <1>17 DEF ReloadStopping, ReloadEnds
<1>18. CASE ReloadCheck  BY <1>18 DEF ReloadCheck, SamePort
<1>19. CASE ReloadSame  BY <1>19 DEF ReloadSame, ReloadEnds
<1>20. CASE ReloadSameCommit  BY <1>20 DEF ReloadSameCommit, RecordConfig, Unlock
<1>21. CASE ReloadListenFails  BY <1>21 DEF ReloadListenFails
<1>22. CASE ReloadListen  BY <1>22 DEF ReloadListen, PrepareDeployment, PortFree
<1>23. CASE ReloadSwap  BY <1>23 DEF ReloadSwap, Replaced, ReloadEnds
<1>24. CASE ReloadSwapCommit  BY <1>24 DEF ReloadSwapCommit, InstallDeployment, Unlock
<1>25. CASE ReloadPublish
  BY <1>25 DEF ReloadPublish, PublishRunning, Publish, Status, ReloadEnds
<1>26. CASE ReloadFail  BY <1>26 DEF ReloadFail
<1>27. CASE ReloadReport
  BY <1>27 DEF ReloadReport, FailureStatus, Publish, Status, ReloadEnds
<1>28. CASE \E d \in Deployment : ServeStart(d)  BY <1>28 DEF ServeStart
<1>29. CASE \E d \in Deployment : ServeRefused(d)  BY <1>29 DEF ServeRefused
<1>30. CASE \E d \in Deployment : ServeClosed(d)  BY <1>30 DEF ServeClosed
<1>31. CASE \E d \in Deployment : ServeFail(d)  BY <1>31 DEF ServeFail
<1>32. CASE \E d \in Deployment : ServeLost(d)  BY <1>32 DEF ServeLost, IsCurrent
<1>33. CASE \E d \in Deployment : ServePublish(d)
  BY <1>33 DEF ServePublish, Publish, Status
<1>34. CASE \E d \in Deployment : DrainClose(d)  BY <1>34 DEF DrainClose, BeginShutdown
<1>35. CASE \E d \in Deployment : DrainReturn(d)  BY <1>35 DEF DrainReturn, EndShutdown
<1>36. CASE \E d \in Deployment, k \in Conn : ConnOpen(d, k) \/ ConnClose(d, k)
  BY <1>36 DEF ConnOpen, ConnClose
<1>37. CASE UNCHANGED vars  BY <1>37, SMTT(30)
<1> QED
  BY <1>1, <1>2, <1>3, <1>4, <1>5, <1>6, <1>7, <1>8, <1>9, <1>10, <1>11,
     <1>12, <1>13, <1>14, <1>15, <1>16, <1>17, <1>18, <1>19, <1>20, <1>21,
     <1>22, <1>23, <1>24, <1>25, <1>26, <1>27, <1>28, <1>29, <1>30, <1>31,
     <1>32, <1>33, <1>34, <1>35, <1>36, <1>37
     DEF Next, Start, Shutdown, ReloadStep, ServeStep, DrainStep, Environment, Terminated

-----------------------------------------------------------------------------

\* The state after New satisfies every part of the invariant.
LEMMA InitIInv == Init => IInv
<1> SUFFICES ASSUME Init PROVE IInv
  OBVIOUS
<1>1. TypeOK
  BY DEF Init, Status, TypeOK, Maybe, Free, StartPC, MainPC, ReloadPC, ServePC, DrainPC,
         StatusState
<1>2. LockInv /\ MainInv /\ ReloadInv
  BY DEF Init, LockInv, MainInv, ReloadInv, StopChecked, Free, StartPC, StopPC
<1>3. LifeInv /\ OwnerInv /\ DrainInv
  BY DEF Init, LifeInv, OwnerInv, CurrentServes, DrainInv
<1>4. PortInv /\ SnapshotInv /\ StatusInv
  BY DEF Init, PortInv, SnapshotInv, SnapshotCoherent, StatusInv, StartPC
<1>5. NoLeakedListener /\ StoppedIsQuiet
  BY DEF Init, NoLeakedListener, StoppedIsQuiet
<1> QED
  BY <1>1, <1>2, <1>3, <1>4, <1>5 DEF IInv

\* A step that changes nothing, or one of Next, keeps the invariant.
LEMMA NextIInv == IInv /\ [Next]_vars => IInv'
  BY TypeStep, ControlStep, LifeStep, ListenerStep, PortStep, SnapshotStep DEF IInv

\* Whatever Start, Reload, Shutdown, the serve goroutines and the drains do, in
\* whatever order, IInv holds between their steps.
THEOREM Inductive == Spec => []IInv
  BY InitIInv, NextIInv, PTL DEF Spec

\* The variables of controller.go always hold values of their types.
THEOREM TypeCorrect == Spec => []TypeOK
<1>1. IInv => TypeOK
  BY DEF IInv
<1> QED
  BY Inductive, <1>1, PTL

\* The snapshot, the log level and the deployment in force come from one
\* configuration whenever c.mu is free: Reload applies all of it or none.
THEOREM Coherent == Spec => []SnapshotCoherent
<1>1. IInv => SnapshotCoherent
  BY DEF IInv, SnapshotInv
<1> QED
  BY Inductive, <1>1, PTL

\* No listener is ever left open with nobody to close it.
THEOREM NoLeak == Spec => []NoLeakedListener
<1>1. IInv => NoLeakedListener
  BY DEF IInv
<1> QED
  BY Inductive, <1>1, PTL

\* The deployment in force is never one that is draining or finished.
THEOREM CurrentIsServed == Spec => []CurrentServes
<1>1. IInv => CurrentServes
  BY DEF IInv, OwnerInv
<1> QED
  BY Inductive, <1>1, PTL

\* Reload's second and third tests of c.stopping never succeed: reloadMu keeps
\* Shutdown out between the first one and the end.
THEOREM StoppingTestedOnce == Spec => []StopChecked
<1>1. IInv => StopChecked
  BY DEF IInv, LockInv
<1> QED
  BY Inductive, <1>1, PTL

\* When Shutdown returns, every listener is closed and every serve goroutine ended.
THEOREM QuietWhenStopped == Spec => []StoppedIsQuiet
<1>1. IInv => StoppedIsQuiet
  BY DEF IInv
<1> QED
  BY Inductive, <1>1, PTL

\* A deployment whose shutdownDeployment has returned has no request in progress, and
\* when Shutdown has returned only requests of a replaced listener that is still being
\* drained, or of one that failed by itself, are left for the end of the process to cut off.
THEOREM DrainCompletes == Spec => []DrainedIsEmpty
<1>1. ASSUME IInv, NEW d \in Deployment, conns[d] # {}
      PROVE  /\ drain[d] # "done"
             /\ pc \in {"wait", "done"} /\ inShutdown[d] => drain[d] # "none"
  BY <1>1 DEF IInv, DrainInv
<1>2. ASSUME IInv, NEW d \in Deployment, conns[d] # {}, pc = "done"
      PROVE  \/ drain[d] \in {"spawned", "draining"}
             \/ serve[d] = "done" /\ ~inShutdown[d]
  BY <1>2 DEF IInv, TypeOK, DrainPC, LockInv, StopPC, LifeInv, DrainInv, StoppedIsQuiet
<1>3. IInv => DrainedIsEmpty
  BY <1>1, <1>2 DEF DrainedIsEmpty
<1> QED
  BY Inductive, <1>3, PTL

\* After any Reload the tray names the deployment in force, if there is one.
THEOREM StatusAgrees == Spec => []StatusNamesCurrent
<1>1. IInv => StatusNamesCurrent
  BY DEF IInv, LockInv, StatusInv, StatusNamesCurrent, Quiescent, StartPC, Free
<1> QED
  BY Inductive, <1>1, PTL

-----------------------------------------------------------------------------

\* A configuration reaches the request handler only behind a listener for its port.
THEOREM CommitsBehindListener == Spec => CommitBehindListener
<1> DEFINE Behind ==
      \E d \in Deployment :
        /\ config[d] # None /\ AddressOf(d) = PortOf[runtime']
        /\ bound[d] \/ serve[d] = "failed"
<1>1. IInv /\ [Next]_vars => [runtime' # runtime => Behind]_vars
  <2> SUFFICES ASSUME IInv, Next, runtime' # runtime PROVE Behind
    OBVIOUS
  <2> USE DEF IInv, TypeOK, Maybe, MainInv, ReloadInv, OwnerInv, CurrentServes, Prepared,
              PortInv, AddressOf
  <2>1. StartUpdate \/ ReloadSame \/ ReloadSwap
    BY DEF Next, Start, StartConfigFails, StartLoad, StartListenFails, StartListen,
           StartCommit, StartPublish, Quit, Shutdown, ShutdownLock, ShutdownClose,
           ShutdownDrain, ShutdownFinish, Exit, ReloadLock, ReloadStep, ReloadLoadFails,
           ReloadLoad, ReloadStopping, ReloadCheck, ReloadSameCommit, ReloadListenFails,
           ReloadListen, ReloadSwapCommit, ReloadPublish, ReloadFail, ReloadReport,
           ServeStep, ServeStart, ServeRefused, ServeClosed, ServeLost, ServePublish,
           DrainStep, DrainClose, DrainReturn, Environment, ServeFail, ConnOpen,
           ConnClose, Terminated, InstallDeployment, vars, service
  <2>2. CASE StartUpdate
    BY <2>2 DEF StartUpdate
  <2>3. CASE ReloadSame
    BY <2>3 DEF ReloadSame
  <2>4. CASE ReloadSwap
    BY <2>4 DEF ReloadSwap
  <2> QED
    BY <2>1, <2>2, <2>3, <2>4
<1> QED
  BY Inductive, <1>1, PTL DEF Spec, CommitBehindListener

\* Nothing but its own failure closes the listener in force.
THEOREM NoGap == Spec => NoServiceGap
<1> DEFINE Kept ==
      \A d \in Deployment :
        current = d /\ bound[d] /\ ~bound'[d] => serve'[d] = "failed"
<1>1. IInv /\ [Next]_vars => [Kept]_vars
  <2> SUFFICES ASSUME IInv, Next,
                      NEW d \in Deployment, current = d, bound[d], ~bound'[d]
               PROVE serve'[d] = "failed"
    OBVIOUS
  <2> USE DEF IInv, TypeOK, Maybe, LockInv, StopChecked, MainInv, LifeInv, OwnerInv,
              CurrentServes, StopPC, StartPC
  <2>1. \/ ShutdownClose \/ Exit \/ ReloadSwap
        \/ \E e \in Deployment : ServeRefused(e) \/ ServeFail(e) \/ DrainClose(e)
    BY DEF Next, Start, StartConfigFails, StartLoad, StartListenFails, StartListen,
           StartUpdate, StartCommit, StartPublish, Quit, Shutdown, ShutdownLock,
           ShutdownDrain, ShutdownFinish, ReloadLock, ReloadStep, ReloadLoadFails,
           ReloadLoad, ReloadStopping, ReloadCheck, ReloadSame, ReloadSameCommit,
           ReloadListenFails, ReloadListen, ReloadSwapCommit, ReloadPublish, ReloadFail,
           ReloadReport, ServeStep, ServeStart, ServeClosed, ServeLost, ServePublish,
           DrainStep, DrainReturn, Environment, ConnOpen, ConnClose, Terminated,
           PrepareDeployment, InstallDeployment, vars, servers
  <2>2. CASE ShutdownClose
    BY <2>2 DEF ShutdownClose
  <2>3. CASE Exit
    BY <2>3 DEF Exit
  <2>4. CASE ReloadSwap
    BY <2>4 DEF ReloadSwap
  <2>5. CASE \E e \in Deployment : ServeRefused(e)
    BY <2>5 DEF ServeRefused
  <2>6. CASE \E e \in Deployment : ServeFail(e)
    BY <2>6 DEF ServeFail
  <2>7. CASE \E e \in Deployment : DrainClose(e)
    BY <2>7 DEF DrainClose, BeginShutdown
  <2> QED
    BY <2>1, <2>2, <2>3, <2>4, <2>5, <2>6, <2>7
<1> QED
  BY Inductive, <1>1, PTL DEF Spec, NoServiceGap

-----------------------------------------------------------------------------
(* Stopping and reloading come to an end. *)

\* While Shutdown sits in servers.Wait, every serve goroutine that has not returned
\* has been told to, or will be by a drain that is on its way: nobody waits for a
\* listener that goes on accepting.
ShutdownWaitsForEnding ==
  pc = "wait" =>
    \A d \in Deployment :
      serve[d] \in {"spawned", "serving"} => inShutdown[d] \/ drain[d] = "spawned"

\* What the wait group of Shutdown waits for ends by itself.
THEOREM WaitsForEnding == Spec => []ShutdownWaitsForEnding
<1>1. IInv => ShutdownWaitsForEnding
  <2> SUFFICES ASSUME IInv, pc = "wait", NEW d \in Deployment,
                      serve[d] \in {"spawned", "serving"}, ~inShutdown[d]
               PROVE drain[d] = "spawned"
    BY DEF ShutdownWaitsForEnding
  <2>1. bound[d]
    BY DEF IInv, LifeInv
  <2>2. stopping /\ rpc = "idle" /\ d # None
    BY NoneAssumption DEF IInv, TypeOK, LockInv, StopPC
  <2>3. current = None /\ dep = None /\ next = None /\ previous = None
    BY <2>2 DEF IInv, MainInv, ReloadInv
  <2> QED
    BY <2>1, <2>2, <2>3 DEF IInv, NoLeakedListener
<1> QED
  BY Inductive, <1>1, PTL

\* How far a serve goroutine is from its end.
ServeRank == [none |-> 0, done |-> 0, publish |-> 1, failed |-> 2, serving |-> 3,
              spawned |-> 4]

\* Once c.stopping is set it stays set, nothing comes into force and no snapshot or
\* level is stored, no port is bound, and every serve goroutine only moves towards
\* its end.
StoppingIsFinal ==
  [][ stopping =>
        /\ stopping' /\ current' = None
        /\ UNCHANGED <<runtime, level, config>>
        /\ \A d \in Deployment : /\ bound'[d] => bound[d]
                                 /\ ServeRank[serve'[d]] <= ServeRank[serve[d]] ]_vars

\* With c.stopping set, only Shutdown, the end of Reload, the serve goroutines, the
\* drains and the clients still take steps.
LEMMA StoppingSteps ==
  ASSUME IInv, Next, stopping
  PROVE  \/ ShutdownClose \/ ShutdownDrain \/ ShutdownFinish \/ Exit
         \/ ReloadLock \/ ReloadLoadFails \/ ReloadLoad \/ ReloadStopping
         \/ ReloadFail \/ ReloadReport
         \/ \E d \in Deployment : ServeStep(d) \/ DrainStep(d) \/ Environment(d)
         \/ UNCHANGED vars
<1>1. /\ pc \in StopPC \cup {"done", "exited"}
      /\ rpc \notin {"same", "sameCommit", "bind", "swap", "swapCommit", "publish"}
  BY DEF IInv, LockInv, StopChecked
<1>2. ~Start /\ ~Quit /\ ~ShutdownLock
  BY <1>1 DEF StopPC, Start, StartConfigFails, StartLoad, StartListenFails, StartListen,
     StartUpdate, StartCommit, StartPublish, Quit, ShutdownLock
<1>3. /\ ~ReloadCheck /\ ~ReloadSame /\ ~ReloadSameCommit /\ ~ReloadListenFails
      /\ ~ReloadListen /\ ~ReloadSwap /\ ~ReloadSwapCommit /\ ~ReloadPublish
  BY <1>1 DEF ReloadCheck, ReloadSame, ReloadSameCommit, ReloadListenFails, ReloadListen,
     ReloadSwap, ReloadSwapCommit, ReloadPublish
<1> QED
  BY <1>2, <1>3, Zenon DEF Next, Shutdown, ReloadStep, Terminated

\* What has stopped never starts again.
THEOREM StopsForGood == Spec => StoppingIsFinal
<1> DEFINE Final ==
      /\ stopping' /\ current' = None
      /\ UNCHANGED <<runtime, level, config>>
      /\ \A d \in Deployment : /\ bound'[d] => bound[d]
                               /\ ServeRank[serve'[d]] <= ServeRank[serve[d]]
<1>1. IInv /\ [Next]_vars => [stopping => Final]_vars
  <2> SUFFICES ASSUME IInv, Next, stopping PROVE Final
    OBVIOUS
  <2>1. stopping = TRUE /\ current = None
    BY DEF IInv, TypeOK, MainInv
  <2>2. \A d \in Deployment : serve[d] \in ServePC /\ ServeRank[serve[d]] \in 0 .. 4
    BY DEF IInv, TypeOK, ServePC, ServeRank
  <2>3. UNCHANGED <<runtime, level, config, stopping>> /\ current' = None
    BY <2>1, StoppingSteps
       DEF ShutdownClose, ShutdownDrain, ShutdownFinish, Exit, ReloadLock, ReloadLoadFails,
           ReloadLoad, ReloadStopping, ReloadFail, ReloadReport, ServeStep, ServeStart,
           ServeRefused, ServeClosed, ServeLost, IsCurrent, ServePublish, DrainStep,
           DrainClose, DrainReturn, Environment, ServeFail, ConnOpen, ConnClose, service,
           locks, servers, vars
  <2>4. ASSUME NEW d \in Deployment  PROVE bound'[d] => bound[d]
    <3>1. CASE ShutdownClose
      BY <3>1 DEF ShutdownClose, BeginShutdown, IInv, TypeOK
    <3>2. CASE Exit
      BY <3>2 DEF Exit
    <3>3. CASE \E e \in Deployment : ServeRefused(e) \/ ServeFail(e)
      BY <3>3 DEF ServeRefused, ServeFail, IInv, TypeOK
    <3>4. CASE \E e \in Deployment : DrainClose(e)
      BY <3>4 DEF DrainClose, BeginShutdown, IInv, TypeOK
    <3>5. CASE bound' = bound
      BY <3>5
    <3> QED
      BY <3>1, <3>2, <3>3, <3>4, <3>5, StoppingSteps
         DEF ShutdownDrain, ShutdownFinish, ReloadLock, ReloadLoadFails, ReloadLoad,
             ReloadStopping, ReloadFail, ReloadReport, ServeStep, ServeStart, ServeClosed,
             ServeLost, ServePublish, DrainStep, DrainReturn, Environment, ConnOpen,
             ConnClose, servers, vars
  <2>5. ASSUME NEW d \in Deployment
        PROVE ServeRank[serve'[d]] <= ServeRank[serve[d]]
    <3>1. CASE \E e \in Deployment :
                 ServeStart(e) \/ ServeRefused(e) \/ ServeClosed(e) \/ ServeFail(e)
      BY <2>2, <3>1 DEF ServeStart, ServeRefused, ServeClosed, ServeFail, ServeRank, IInv,
         TypeOK
    <3>2. CASE \E e \in Deployment : ServeLost(e) \/ ServePublish(e)
      BY <2>2, <3>2 DEF ServeLost, ServePublish, ServeRank, IInv, TypeOK
    <3>3. CASE serve' = serve
      BY <2>2, <3>3
    <3> QED
      BY <3>1, <3>2, <3>3, StoppingSteps
         DEF ShutdownClose, ShutdownDrain, ShutdownFinish, Exit, ReloadLock, ReloadLoadFails,
             ReloadLoad, ReloadStopping, ReloadFail, ReloadReport, ServeStep, DrainStep,
             DrainClose, DrainReturn, Environment, ConnOpen, ConnClose, servers, vars
  <2> QED
    BY <2>1, <2>3, <2>4, <2>5
<1> QED
  BY Inductive, <1>1, PTL DEF Spec, StoppingIsFinal

\* How far Reload is from its end.
ReloadRank == [load |-> 8, check |-> 7, same |-> 6, bind |-> 5, sameCommit |-> 4,
               swap |-> 4, swapCommit |-> 3, fail |-> 2, publish |-> 1, report |-> 1,
               idle |-> 0]

\* Reload tries nothing twice: each of its steps brings it nearer to its end, it keeps
\* reloadMu until then, and the steps of the others leave its variables alone.
ReloadMovesOn ==
  [][ rpc # "idle" =>
        \/ ReloadRank[rpc'] < ReloadRank[rpc]
        \/ UNCHANGED reload /\ reloadMu' = "reload" ]_vars

THEOREM ReloadTriesOnce == Spec => ReloadMovesOn
<1> DEFINE Moves ==
      \/ ReloadRank[rpc'] < ReloadRank[rpc]
      \/ UNCHANGED reload /\ reloadMu' = "reload"
<1>1. IInv /\ [Next]_vars => [rpc # "idle" => Moves]_vars
  <2> SUFFICES ASSUME IInv, Next, rpc # "idle" PROVE Moves
    OBVIOUS
  <2>1. reloadMu = "reload" /\ pc \notin StartPC \cup StopPC
    BY DEF IInv, LockInv, StartPC, StopPC
  <2>2. CASE ReloadStep
    BY <2>2 DEF ReloadStep, ReloadLoadFails, ReloadLoad, ReloadStopping, ReloadCheck,
       ReloadSame, ReloadSameCommit, ReloadListenFails, ReloadListen, ReloadSwap,
       ReloadSwapCommit, ReloadPublish, ReloadFail, ReloadReport, ReloadEnds, ReloadRank
  <2>3. CASE Exit
    BY <2>3 DEF Exit, ReloadEnds, ReloadRank, IInv, TypeOK, ReloadPC
  <2>4. CASE Quit
    BY <2>1, <2>4 DEF Quit, locks
  <2>5. ~Start /\ ~Shutdown /\ ~ReloadLock
    BY <2>1 DEF StartPC, StopPC, Free, Start, StartConfigFails, StartLoad,
       StartListenFails, StartListen, StartUpdate, StartCommit, StartPublish, Shutdown,
       ShutdownLock, ShutdownLocks, ShutdownClose, ShutdownDrain, ShutdownFinish, ReloadLock
  <2>6. CASE \E d \in Deployment : ServeStep(d) \/ DrainStep(d) \/ Environment(d)
    BY <2>1, <2>6 DEF ServeStep, ServeStart, ServeRefused, ServeClosed, ServeLost,
       ServePublish, DrainStep, DrainClose, DrainReturn, Environment, ServeFail, ConnOpen,
       ConnClose, locks
  <2>7. CASE UNCHANGED vars
    BY <2>1, <2>7 DEF vars, reload, locals
  <2> QED
    BY <2>2, <2>3, <2>4, <2>5, <2>6, <2>7, Zenon DEF Next, Terminated
<1> QED
  BY Inductive, <1>1, PTL DEF Spec, ReloadMovesOn

-----------------------------------------------------------------------------
(* What request goroutines see of the controller. *)

\* A step stores a snapshot as it takes mu for a swap, or the level of that snapshot as
\* it releases mu, or neither.
LEMMA FeedStep ==
  ASSUME IInv, [Next]_vars
  PROVE  \/ UNCHANGED <<runtime, level, mu>>
         \/ mu = Free /\ mu' # Free /\ runtime' \in Config /\ UNCHANGED level
         \/ mu # Free /\ mu' = Free /\ level' = LevelOf[runtime] /\ UNCHANGED runtime
<1>1. CASE StartUpdate
  BY <1>1 DEF StartUpdate, Free, IInv, TypeOK, Maybe, MainInv
<1>2. CASE ReloadSame \/ ReloadSwap
  BY <1>2 DEF ReloadSame, ReloadSwap, Free, IInv, TypeOK, Maybe, ReloadInv, LockInv,
     StopChecked
<1>3. CASE StartCommit
  BY <1>3 DEF StartCommit, InstallDeployment, Unlock, Free, IInv, LockInv, OwnerInv,
     SnapshotInv
<1>4. CASE ReloadSameCommit
  BY <1>4 DEF ReloadSameCommit, Unlock, Free, IInv, LockInv, SnapshotInv
<1>5. CASE ReloadSwapCommit
  BY <1>5 DEF ReloadSwapCommit, InstallDeployment, Unlock, Free, IInv, LockInv, OwnerInv,
     SnapshotInv
<1>6. CASE UNCHANGED <<runtime, level, mu>>
  BY <1>6
<1>7. \/ StartUpdate \/ ReloadSame \/ ReloadSwap \/ StartCommit \/ ReloadSameCommit
      \/ ReloadSwapCommit \/ UNCHANGED <<runtime, level, mu>>
  BY DEF Next, Start, StartConfigFails, StartLoad, StartListenFails, StartListen,
         StartPublish, Quit, Shutdown, ShutdownLock, ShutdownClose, ShutdownDrain,
         ShutdownFinish, Exit, ReloadLock, ReloadStep, ReloadLoadFails, ReloadLoad,
         ReloadStopping, ReloadCheck, ReloadListenFails, ReloadListen, ReloadPublish,
         ReloadFail, ReloadReport, ServeStep, ServeStart, ServeRefused, ServeClosed,
         ServeLost, ServePublish, DrainStep, DrainClose, DrainReturn, Environment,
         ServeFail, ConnOpen, ConnClose, Terminated, service, locks, vars
<1> QED
  BY <1>1, <1>2, <1>3, <1>4, <1>5, <1>6, <1>7

\* A deployment is served only once a snapshot is in force.
ServesSnapshot == (\E d \in Deployment : serve[d] # "none") => runtime # None

\* Only the commit of a swap lets a deployment be served, behind the snapshot it stored.
LEMMA ServesStep ==
  ASSUME IInv, ServesSnapshot, [Next]_vars
  PROVE  ServesSnapshot'
<1> SUFFICES ASSUME NEW d \in Deployment, serve'[d] # "none"
             PROVE  runtime' # None
  BY DEF ServesSnapshot
<1>1. runtime # None => runtime' # None
  BY FeedStep, NoneAssumption
<1>2. CASE serve[d] # "none"
  BY <1>1, <1>2 DEF ServesSnapshot
<1>3. CASE StartCommit
  BY <1>3 DEF StartCommit, InstallDeployment, IInv, MainInv, SnapshotInv
<1>4. CASE ReloadSwapCommit
  BY <1>4 DEF ReloadSwapCommit, InstallDeployment, IInv, ReloadInv, SnapshotInv
<1>5. CASE serve[d] = "none" /\ ~StartCommit /\ ~ReloadSwapCommit
  <2>1. CASE \E e \in Deployment : ServeStep(e) \/ Environment(e)
    BY <1>5, <2>1 DEF ServeStep, ServeStart, ServeRefused, ServeClosed, ServeLost,
       ServePublish, Environment, ServeFail, ConnOpen, ConnClose, IInv, TypeOK
  <2>2. CASE serve' = serve
    BY <1>5, <2>2
  <2> QED
    BY <1>5, <2>1, <2>2
       DEF Next, Start, StartConfigFails, StartLoad, StartListenFails, StartListen,
           StartUpdate, StartPublish, Quit, Shutdown, ShutdownLock, ShutdownClose,
           ShutdownDrain, ShutdownFinish, Exit, ReloadLock, ReloadStep, ReloadLoadFails,
           ReloadLoad, ReloadStopping, ReloadCheck, ReloadSame, ReloadSameCommit,
           ReloadListenFails, ReloadListen, ReloadSwap, ReloadPublish, ReloadFail,
           ReloadReport, DrainStep, DrainClose, DrainReturn, Terminated,
           PrepareDeployment, servers, vars
<1> QED
  BY <1>2, <1>3, <1>4, <1>5

\* No client is ever let in before there is a configuration to serve it by.
THEOREM ServesBehindSnapshot == Spec => []ServesSnapshot
<1>1. Init => ServesSnapshot
  BY DEF Init, ServesSnapshot
<1> QED
  BY Inductive, <1>1, ServesStep, PTL DEF Spec

-----------------------------------------------------------------------------
(* Refinement of Service. *)

\* Closing the listener of d takes its port, and only its port, out of Open.
LEMMA ClosePort ==
  ASSUME IInv, NEW d \in Deployment, bound[d], config' = config,
         bound' = [bound EXCEPT ![d] = FALSE]
  PROVE  AddressOf(d) \in Open /\ AddressOf(d) \in Port /\ Open' = Open \ {AddressOf(d)}
<1> USE DEF IInv, TypeOK, Maybe, LifeInv, PortInv, Open, AddressOf
<1>1. AddressOf(d) \in Open /\ AddressOf(d) \in Port
  OBVIOUS
<1>2. Open' = Open \ {AddressOf(d)}
  OBVIOUS
<1> QED
  BY <1>1, <1>2

\* Binding a listener for configuration c adds its port to Open.
LEMMA OpenPort ==
  ASSUME IInv, NEW d \in Deployment, NEW c \in Config, PrepareDeployment(d, c)
  PROVE  /\ PortOf[c] \in Port \ Open
         /\ Open' = Open \cup {PortOf[c]}
         /\ \A e \in Deployment : e # d => config'[e] = config[e]
<1> USE DEF IInv, TypeOK, Maybe, LifeInv, PrepareDeployment, PortFree, Open, AddressOf
<1>1. PortOf[c] \in Port \ Open
  OBVIOUS
<1>2. \A e \in Deployment : e # d => config'[e] = config[e] /\ bound'[e] = bound[e]
  OBVIOUS
<1>3. Open' = Open \cup {PortOf[c]}
  BY <1>2
<1> QED
  BY <1>1, <1>2, <1>3

\* A step that leaves deployment, listeners and phase alone is invisible.
LEMMA Invisible ==
  ASSUME UNCHANGED <<current, config, bound, stopping>>,
         pc' \in {"done", "exited"} <=> pc \in {"done", "exited"}
  PROVE  UNCHANGED <<Active, Open, Phase>>
<1>1. UNCHANGED Active
  BY DEF Active
<1>2. UNCHANGED Open
  BY DEF Open, AddressOf
<1>3. UNCHANGED Phase
  BY DEF Phase
<1> QED
  BY <1>1, <1>2, <1>3

\* Each step of the goroutines is one of Service's, or invisible to it.
LEMMA StepRefines ==
  IInv /\ [Next]_vars => [PromisedService!Next]_(PromisedService!vars)
<1> SUFFICES ASSUME IInv, [Next]_vars
             PROVE PromisedService!Next \/ UNCHANGED <<Active, Open, Phase>>
  BY DEF PromisedService!vars
<1>1. CASE StartListen
  <2>1. PICK d \in Deployment : PrepareDeployment(d, startCfg)
    BY <1>1 DEF StartListen
  <2>2. startCfg \in Config /\ Phase = "up" /\ UNCHANGED <<Active, Phase>>
    BY <1>1, <2>1 DEF StartListen, IInv, TypeOK, Maybe, LockInv, MainInv, StartPC, StopPC,
       Active, Phase, locks, service, PrepareDeployment
  <2>3. PromisedService!Prepare(PortOf[startCfg])
    BY <2>1, <2>2, OpenPort DEF PromisedService!Prepare
  <2> QED
    BY <2>2, <2>3 DEF PromisedService!Next
<1>2. CASE ReloadListen
  <2>1. PICK d \in Deployment : PrepareDeployment(d, cfg)
    BY <1>2 DEF ReloadListen
  <2>2. cfg \in Config /\ Phase = "up"
    BY <1>2 DEF ReloadListen, IInv, TypeOK, Maybe, LockInv, StopChecked, ReloadInv, Phase
  <2>3. UNCHANGED <<Active, Phase>>
    BY <1>2, <2>1 DEF ReloadListen, IInv, TypeOK, Maybe, OwnerInv, Active, Phase, locks,
       main, service, PrepareDeployment
  <2>4. PromisedService!Prepare(PortOf[cfg])
    BY <2>1, <2>2, <2>3, OpenPort DEF PromisedService!Prepare
  <2> QED
    BY <2>2, <2>4 DEF PromisedService!Next
<1>3. CASE StartCommit
  <2>1. startCfg \in Config /\ Phase = "up" /\ UNCHANGED <<Open, Phase>>
    BY <1>3 DEF StartCommit, InstallDeployment, IInv, TypeOK, Maybe, LockInv, MainInv,
       StartPC, StopPC, Open, Phase, AddressOf
  <2>2. PortOf[startCfg] \in Open /\ Active' = startCfg
    BY <1>3 DEF StartCommit, InstallDeployment, IInv, TypeOK, Maybe, MainInv, OwnerInv,
       Prepared, Open, Active, AddressOf
  <2> QED
    BY <2>1, <2>2 DEF PromisedService!Next, PromisedService!Replace
<1>4. CASE ReloadSwapCommit
  <2>1. cfg \in Config /\ Phase = "up" /\ UNCHANGED <<Open, Phase>>
    BY <1>4 DEF ReloadSwapCommit, InstallDeployment, IInv, TypeOK, Maybe, LockInv,
       StopChecked, ReloadInv, Open, Phase, AddressOf, main
  <2>2. PortOf[cfg] \in Open /\ Active' = cfg
    BY <1>4 DEF ReloadSwapCommit, InstallDeployment, IInv, TypeOK, Maybe, ReloadInv,
       OwnerInv, Prepared, Open, Active, AddressOf
  <2> QED
    BY <2>1, <2>2 DEF PromisedService!Next, PromisedService!Replace
<1>5. CASE ReloadSameCommit
  <2> USE <1>5 DEF ReloadSameCommit, RecordConfig, IInv, TypeOK, Maybe, ReloadInv,
                   OwnerInv, PortInv, AddressOf
  <2>1. cfg \in Config /\ Phase = "up" /\ UNCHANGED Phase
    BY DEF LockInv, StopChecked, Phase, main
  <2>2. \A d \in Deployment : (AddressOf(d))' = AddressOf(d)
    OBVIOUS
  <2>3. UNCHANGED Open
    BY <2>2 DEF Open
  <2>4. Active # None /\ PortOf[Active] = PortOf[cfg] /\ Active' = cfg
    BY DEF Active
  <2> QED
    BY <2>1, <2>3, <2>4 DEF PromisedService!Next, PromisedService!Replace
<1>6. CASE ShutdownLock
  <2>1. Phase = "up" /\ Phase' = "stopping"
    BY <1>6 DEF ShutdownLock, IInv, LockInv, StopPC, Phase
  <2>2. Active' = None /\ UNCHANGED Open
    BY <1>6 DEF ShutdownLock, Active, Open, AddressOf, servers
  <2> QED
    BY <2>1, <2>2 DEF PromisedService!Next, PromisedService!Stop
<1>7. CASE ShutdownFinish
  <2>1. Phase = "stopping" /\ Phase' = "stopped" /\ UNCHANGED <<Active, Open>>
    BY <1>7 DEF ShutdownFinish, IInv, LockInv, StopPC, Phase, Active, Open, AddressOf,
       service, servers
  <2>2. StoppedIsQuiet'
    BY ListenerStep, <1>7 DEF Next, Shutdown
  <2>3. Open = {}
    BY <1>7, <2>1, <2>2 DEF ShutdownFinish, StoppedIsQuiet, Open
  <2> QED
    BY <2>1, <2>3 DEF PromisedService!Next, PromisedService!Stopped
<1>8. CASE ShutdownClose
  <2>1. UNCHANGED <<Active, Phase>> /\ config' = config
    BY <1>8 DEF ShutdownClose, Active, Phase, service, locks
  <2>2. CASE bound' = bound
    BY <2>1, <2>2 DEF Open, AddressOf
  <2>3. CASE bound' # bound
    <3>1. dep \in Deployment /\ bound[dep] /\ bound' = [bound EXCEPT ![dep] = FALSE]
      BY <1>8, <2>3 DEF ShutdownClose, BeginShutdown, IInv, TypeOK, Maybe, MainInv
    <3> QED
      BY <2>1, <3>1, ClosePort DEF PromisedService!Next, PromisedService!Close
  <2> QED
    BY <2>2, <2>3
<1>9. CASE \E d \in Deployment : DrainClose(d)
  <2>1. PICK d \in Deployment : DrainClose(d)
    BY <1>9
  <2>2. UNCHANGED <<Active, Phase>> /\ config' = config
    BY <2>1 DEF DrainClose, Active, Phase, service, locks, main
  <2>3. CASE bound' = bound
    BY <2>2, <2>3 DEF Open, AddressOf
  <2>4. CASE bound' # bound
    <3>1. bound[d] /\ bound' = [bound EXCEPT ![d] = FALSE]
      BY <2>1, <2>4 DEF DrainClose, BeginShutdown, IInv, TypeOK
    <3> QED
      BY <2>2, <3>1, ClosePort DEF PromisedService!Next, PromisedService!Close
  <2> QED
    BY <2>3, <2>4
<1>10. CASE \E d \in Deployment : ServeRefused(d) \/ ServeFail(d)
  <2>1. PICK d \in Deployment : ServeRefused(d) \/ ServeFail(d)
    BY <1>10
  <2>2. UNCHANGED <<Active, Phase>> /\ config' = config
    BY <2>1 DEF ServeRefused, ServeFail, Active, Phase, service, locks, main
  <2>3. bound[d] /\ bound' = [bound EXCEPT ![d] = FALSE]
    BY <2>1 DEF ServeRefused, ServeFail, IInv, LifeInv
  <2> QED
    BY <2>2, <2>3, ClosePort DEF PromisedService!Next, PromisedService!Close
<1>11. CASE \E d \in Deployment : ServeLost(d)
  <2>1. PICK d \in Deployment : ServeLost(d)
    BY <1>11
  <2>2. UNCHANGED <<Open, Phase>>
    BY <2>1 DEF ServeLost, Open, AddressOf, Phase, locks, main
  <2>3. CASE current' = current
    BY <2>1, <2>2, <2>3 DEF ServeLost, Active
  <2>4. CASE current' # current
    <3>1. current = d /\ ~stopping /\ ~bound[d] /\ Active = config[d] /\ Active' = None
      BY <2>1, <2>4 DEF ServeLost, IsCurrent, IInv, LifeInv, Active
    <3>2. Phase = "up" /\ Active # None
      BY <3>1 DEF IInv, LockInv, OwnerInv, Phase
    <3>3. PortOf[Active] \notin Open
      BY <3>1 DEF IInv, PortInv, Open, AddressOf
    <3> QED
      BY <2>2, <3>1, <3>2, <3>3 DEF PromisedService!Next, PromisedService!Lose
  <2> QED
    BY <2>3, <2>4
<1>12. CASE Exit
  <2>1. \A d \in Deployment : ~bound[d] /\ ~bound'[d]
    BY <1>12 DEF Exit, IInv, StoppedIsQuiet
  <2>2. UNCHANGED Open
    BY <2>1 DEF Open
  <2>3. UNCHANGED <<Active, Phase>>
    BY <1>12 DEF Exit, Active, Phase, service
  <2> QED
    BY <2>2, <2>3
<1>13. CASE ReloadSwap
  BY <1>13, Invisible DEF ReloadSwap, IInv, LockInv, StopChecked, main
<1>14. CASE \/ StartConfigFails \/ StartLoad \/ StartListenFails \/ StartUpdate
            \/ StartPublish \/ Quit \/ ShutdownDrain
  BY <1>14, Invisible DEF StartConfigFails, StartLoad, StartListenFails, StartUpdate,
     StartPublish, Quit, ShutdownDrain, service, locks, servers
<1>15. CASE \/ ReloadLock \/ ReloadLoadFails \/ ReloadLoad \/ ReloadStopping
            \/ ReloadCheck \/ ReloadSame \/ ReloadListenFails \/ ReloadPublish
            \/ ReloadFail \/ ReloadReport
  BY <1>15, Invisible DEF ReloadLock, ReloadLoadFails, ReloadLoad, ReloadStopping,
     ReloadCheck, ReloadSame, ReloadListenFails, ReloadPublish, ReloadFail, ReloadReport,
     service, locks, servers, main
<1>16. CASE \E d \in Deployment : \/ ServeStart(d) \/ ServeClosed(d) \/ ServePublish(d)
                                  \/ DrainReturn(d)
                                  \/ \E k \in Conn : ConnOpen(d, k) \/ ConnClose(d, k)
  BY <1>16, Invisible DEF ServeStart, ServeClosed, ServePublish, DrainReturn, ConnOpen,
     ConnClose, service, locks, main
<1>17. CASE UNCHANGED vars
  BY <1>17, Invisible DEF vars
<1> QED
  BY <1>1, <1>2, <1>3, <1>4, <1>5, <1>6, <1>7, <1>8, <1>9, <1>10, <1>11, <1>12, <1>13,
     <1>14, <1>15, <1>16, <1>17
     DEF Next, Start, Shutdown, ReloadStep, ServeStep, DrainStep, Environment, Terminated

\* The controller, with all its goroutines, implements Service: a configuration
\* comes into force only behind its port, and nothing happens after it stopped.
THEOREM Implements == Spec => ImplementsService
<1>1. Init => PromisedService!Init
  BY DEF Init, PromisedService!Init, Active, Open, Phase
<1> QED
  BY Inductive, <1>1, StepRefines, PTL DEF Spec, ImplementsService, PromisedService!Spec

=============================================================================
