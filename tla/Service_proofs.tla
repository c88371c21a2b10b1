---------------------------- MODULE Service_proofs ----------------------------
(***************************************************************************)
(* Proofs about three components of the service's process: its threads     *)
(* (ServiceThreads), auto-protect (AutoProtect) and the log (LogChain).    *)
(* They share no state; each section is about one specification.           *)
(***************************************************************************)
EXTENDS ServiceThreads, AutoProtect, LogChain, SequenceTheorems, WellFoundedInduction, TLAPS

-----------------------------------------------------------------------------
(***************************************************************************)
(* The threads, for any sections a reload may change.                      *)
(***************************************************************************)

(* Every variable stays in its range. *)
THEOREM TypeCorrect == Spec => []TypeOK
<1> USE ThreadsAssumption
<1>1. Init => TypeOK
  BY DEF Init, TypeOK
<1>2. TypeOK /\ [Next]_vars => TypeOK'
  <2> SUFFICES ASSUME TypeOK, [Next]_vars PROVE TypeOK'
    OBVIOUS
  <2> USE DEF TypeOK
  <2>1. ASSUME NEW section \in ReloadableSections, EditFile(section) PROVE TypeOK'
    BY <2>1 DEF EditFile
  <2>2. CASE RequestStop
    BY <2>2 DEF RequestStop
  <2>3. CASE PipeClient
    BY <2>3 DEF PipeClient
  <2>4. CASE Browser
    BY <2>4 DEF Browser
  <2>5. CASE Controller
    BY <2>5 DEF Controller
  <2>6. CASE CoordEnters
    BY <2>6 DEF CoordEnters, Enter
  <2>7. CASE CoordLeaves
    BY <2>7 DEF CoordLeaves, Leave
  <2>8. CASE CoordChecks
    BY <2>8 DEF CoordChecks
  <2>9. CASE CoordFails
    BY <2>9 DEF CoordFails
  <2>10. CASE CoordSeesStop
    BY <2>10 DEF CoordSeesStop
  <2>11. CASE PipeChecks
    BY <2>11 DEF PipeChecks
  <2>12. CASE PipeCreates
    BY <2>12 DEF PipeCreates
  <2>13. CASE PipeReads
    BY <2>13 DEF PipeReads
  <2>14. CASE PipeEnters
    BY <2>14 DEF PipeEnters, Enter
  <2>15. CASE PipeLeaves
    BY <2>15 DEF PipeLeaves, Leave
  <2>16. CASE PipeCloses
    BY <2>16 DEF PipeCloses
  <2>17. CASE DashSeesStop
    BY <2>17 DEF DashSeesStop
  <2>18. CASE DashReads
    BY <2>18 DEF DashReads
  <2>19. CASE DashRefuses
    BY <2>19 DEF DashRefuses
  <2>20. CASE DashEnters
    BY <2>20 DEF DashEnters, Enter
  <2>21. CASE DashReloads
    <3>1. /\ edits' \subseteq ReloadableSections /\ dirty' \in BOOLEAN
          /\ dash' \in {"join_coord", "inside"}
      BY <2>21 DEF DashReloads, Reload
    <3>2. stopping' \subseteq {"pipe", "dash", "coord"}
      BY <2>21 DEF DashReloads, Reload
    <3> QED
      BY <2>21, <3>1, <3>2 DEF DashReloads
  <2>22. CASE DashReplaces
    BY <2>22 DEF DashReplaces, Replace
  <2>23. CASE DashLeaves
    BY <2>23 DEF DashLeaves, Leave
  <2>24. CASE UpdateDashboard
    <3>1. stopping' \subseteq {"pipe", "dash", "coord"}
      BY <2>24 DEF UpdateDashboard
    <3>2. main' \in {"restart_dash", "poll"} /\ dirty' = FALSE
      BY <2>24 DEF UpdateDashboard
    <3>3. UNCHANGED <<owner, pipe, dash, coord, edits, stopEvent>>
      BY <2>24 DEF UpdateDashboard
    <3>4. dirty' \in BOOLEAN
      BY <3>2
    <3> QED
      BY <3>1, <3>2, <3>3, <3>4, SMT
  <2>25. CASE RestartDashboard
    BY <2>25 DEF RestartDashboard
  <2>26. CASE ReportDashboard
    BY <2>26 DEF ReportDashboard
  <2>27. CASE PollEnters
    BY <2>27 DEF PollEnters, Enter
  <2>28. CASE PollReloads
    <3>1. /\ edits' \subseteq ReloadableSections /\ dirty' \in BOOLEAN
          /\ main' \in {"join_coord", "inside"}
      BY <2>28 DEF PollReloads, Reload
    <3>2. stopping' \subseteq {"pipe", "dash", "coord"}
      BY <2>28 DEF PollReloads, Reload
    <3> QED
      BY <2>28, <3>1, <3>2 DEF PollReloads
  <2>29. CASE PollReplaces
    BY <2>29 DEF PollReplaces, Replace
  <2>30. CASE PollLeaves
    BY <2>30 DEF PollLeaves, Leave
  <2>31. CASE Wait
    BY <2>31 DEF Wait
  <2>32. CASE StopDashboard
    <3>1. stopping' \subseteq {"pipe", "dash", "coord"}
      BY <2>32 DEF StopDashboard
    <3>2. main' \in {"join_dash", "stop_pipe"}
      BY <2>32 DEF StopDashboard
    <3> QED
      BY <2>32, <3>1, <3>2 DEF StopDashboard
  <2>33. CASE StopPipe
    <3>1. stopping' \subseteq {"pipe", "dash", "coord"}
      BY <2>33 DEF StopPipe
    <3>2. main' \in {"wake_pipe", "join_pipe", "restore"} /\ pipe' \in {pipe, "connected"}
      BY <2>33 DEF StopPipe
    <3> QED
      BY <2>33, <3>1, <3>2 DEF StopPipe
  <2>34. CASE RestoreEnters
    BY <2>34 DEF RestoreEnters, Enter
  <2>35. CASE RestoreLeaves
    BY <2>35 DEF RestoreLeaves, Leave
  <2>36. CASE StopCoordination
    <3>1. stopping' \subseteq {"pipe", "dash", "coord"}
      BY <2>36 DEF StopCoordination
    <3>2. main' \in {"join_exit", "done"}
      BY <2>36 DEF StopCoordination
    <3> QED
      BY <2>36, <3>1, <3>2 DEF StopCoordination
  <2>37. CASE UNCHANGED vars
    BY <2>37 DEF vars
  <2>38. CASE PipeClientWrites
    BY <2>38 DEF PipeClientWrites
  <2>39. CASE PipeClientReads
    BY <2>39 DEF PipeClientReads
  <2>40. CASE BrowserReads
    BY <2>40 DEF BrowserReads
  <2>41. CASE ControllerReads
    BY <2>41 DEF ControllerReads
  <2>42. CASE CoordSends
    BY <2>42 DEF CoordSends
  <2> HIDE DEF TypeOK
  <2> QED
    BY <2>1, <2>2, <2>3, <2>4, <2>5, <2>6, <2>7, <2>8, <2>9, <2>10, <2>11, <2>12, <2>13,
       <2>14, <2>15, <2>16, <2>17, <2>18, <2>19, <2>20, <2>21, <2>22, <2>23, <2>24, <2>25,
       <2>26, <2>27, <2>28, <2>29, <2>30, <2>31, <2>32, <2>33, <2>34, <2>35, <2>36, <2>37,
       <2>38, <2>39, <2>40, <2>41, <2>42 DEF
       Next, Outside, CoordStep, PipeStep, DashStep, MainStep
<1> QED
  BY <1>1, <1>2, PTL DEF Spec

-----------------------------------------------------------------------------
(* The Actuator is only ever touched by one thread at a time               *)
(* (Daemon.h:35-37): whatever is polled, commanded, reloaded, joined or    *)
(* stopped, the threads inside mutex_ are the one that owns it.            *)
THEOREM OneThread == Spec => []OneThreadInside
<1>1. Init => OneThreadInside
  BY DEF Init, OneThreadInside, Inside
<1>2. TypeOK /\ OneThreadInside /\ [Next]_vars => OneThreadInside'
  <2> SUFFICES ASSUME TypeOK, OneThreadInside, [Next]_vars PROVE OneThreadInside'
    OBVIOUS
  <2> USE DEF OneThreadInside, Inside
  <2>1. ASSUME NEW section \in ReloadableSections, EditFile(section) PROVE OneThreadInside'
    BY <2>1 DEF EditFile
  <2>2. CASE RequestStop
    BY <2>2 DEF RequestStop
  <2>3. CASE PipeClient
    BY <2>3 DEF PipeClient
  <2>4. CASE Browser
    BY <2>4 DEF Browser
  <2>5. CASE Controller
    BY <2>5 DEF Controller
  <2>6. CASE CoordEnters
    BY <2>6 DEF CoordEnters, Enter
  <2>7. CASE CoordLeaves
    BY <2>7 DEF CoordLeaves, Leave
  <2>8. CASE CoordChecks
    BY <2>8 DEF CoordChecks
  <2>9. CASE CoordFails
    BY <2>9 DEF CoordFails
  <2>10. CASE CoordSeesStop
    BY <2>10 DEF CoordSeesStop
  <2>11. CASE PipeChecks
    BY <2>11 DEF PipeChecks
  <2>12. CASE PipeCreates
    BY <2>12 DEF PipeCreates
  <2>13. CASE PipeReads
    BY <2>13 DEF PipeReads
  <2>14. CASE PipeEnters
    BY <2>14 DEF PipeEnters, Enter
  <2>15. CASE PipeLeaves
    BY <2>15 DEF PipeLeaves, Leave
  <2>16. CASE PipeCloses
    BY <2>16 DEF PipeCloses
  <2>17. CASE DashSeesStop
    BY <2>17 DEF DashSeesStop
  <2>18. CASE DashReads
    BY <2>18 DEF DashReads
  <2>19. CASE DashRefuses
    BY <2>19 DEF DashRefuses
  <2>20. CASE DashEnters
    BY <2>20 DEF DashEnters, Enter
  <2>21. CASE DashReloads
    BY <2>21 DEF DashReloads, Reload
  <2>22. CASE DashReplaces
    BY <2>22 DEF DashReplaces, Replace
  <2>23. CASE DashLeaves
    BY <2>23 DEF DashLeaves, Leave
  <2>24. CASE UpdateDashboard
    BY <2>24 DEF UpdateDashboard
  <2>25. CASE RestartDashboard
    BY <2>25 DEF RestartDashboard
  <2>26. CASE ReportDashboard
    BY <2>26 DEF ReportDashboard
  <2>27. CASE PollEnters
    BY <2>27 DEF PollEnters, Enter
  <2>28. CASE PollReloads
    BY <2>28 DEF PollReloads, Reload
  <2>29. CASE PollReplaces
    BY <2>29 DEF PollReplaces, Replace
  <2>30. CASE PollLeaves
    BY <2>30 DEF PollLeaves, Leave
  <2>31. CASE Wait
    BY <2>31 DEF Wait
  <2>32. CASE StopDashboard
    BY <2>32 DEF StopDashboard
  <2>33. CASE StopPipe
    BY <2>33 DEF StopPipe
  <2>34. CASE RestoreEnters
    BY <2>34 DEF RestoreEnters, Enter
  <2>35. CASE RestoreLeaves
    BY <2>35 DEF RestoreLeaves, Leave
  <2>36. CASE StopCoordination
    BY <2>36 DEF StopCoordination
  <2>37. CASE UNCHANGED vars
    BY <2>37 DEF vars
  <2>38. CASE PipeClientWrites
    BY <2>38 DEF PipeClientWrites
  <2>39. CASE PipeClientReads
    BY <2>39 DEF PipeClientReads
  <2>40. CASE BrowserReads
    BY <2>40 DEF BrowserReads
  <2>41. CASE ControllerReads
    BY <2>41 DEF ControllerReads
  <2>42. CASE CoordSends
    BY <2>42 DEF CoordSends
  <2> QED
    BY <2>1, <2>2, <2>3, <2>4, <2>5, <2>6, <2>7, <2>8, <2>9, <2>10, <2>11, <2>12, <2>13,
       <2>14, <2>15, <2>16, <2>17, <2>18, <2>19, <2>20, <2>21, <2>22, <2>23, <2>24, <2>25,
       <2>26, <2>27, <2>28, <2>29, <2>30, <2>31, <2>32, <2>33, <2>34, <2>35, <2>36, <2>37,
       <2>38, <2>39, <2>40, <2>41, <2>42 DEF
       Next, Outside, CoordStep, PipeStep, DashStep, MainStep
<1> QED
  BY <1>1, <1>2, TypeCorrect, PTL DEF Spec

-----------------------------------------------------------------------------
(* By the time Run() stops the pipe the dashboard has ended, and nothing   *)
(* starts either of them again.                                            *)
Stopped ==
  /\ LocalCommandsAreOver
  /\ main \in {"stop_pipe", "wake_pipe", "join_pipe"} => dash \in {"off", "exited"}

(* Each step keeps the order of the shutdown. *)
LEMMA StoppedInductive == TypeOK /\ Stopped /\ [Next]_vars => Stopped'
<1> SUFFICES ASSUME TypeOK, Stopped, [Next]_vars PROVE Stopped'
  OBVIOUS
<1> USE DEF Stopped, LocalCommandsAreOver
<1>1. ASSUME NEW section \in ReloadableSections, EditFile(section) PROVE Stopped'
  BY <1>1 DEF EditFile
<1>2. CASE RequestStop
  BY <1>2 DEF RequestStop
<1>3. CASE PipeClient
  BY <1>3 DEF PipeClient
<1>4. CASE Browser
  BY <1>4 DEF Browser
<1>5. CASE Controller
  BY <1>5 DEF Controller
<1>6. CASE CoordEnters
  BY <1>6 DEF CoordEnters, Enter
<1>7. CASE CoordLeaves
  BY <1>7 DEF CoordLeaves, Leave
<1>8. CASE CoordChecks
  BY <1>8 DEF CoordChecks
<1>9. CASE CoordFails
  BY <1>9 DEF CoordFails
<1>10. CASE CoordSeesStop
  BY <1>10 DEF CoordSeesStop
<1>11. CASE PipeChecks
  BY <1>11 DEF PipeChecks
<1>12. CASE PipeCreates
  BY <1>12 DEF PipeCreates
<1>13. CASE PipeReads
  BY <1>13 DEF PipeReads
<1>14. CASE PipeEnters
  BY <1>14 DEF PipeEnters, Enter
<1>15. CASE PipeLeaves
  BY <1>15 DEF PipeLeaves, Leave
<1>16. CASE PipeCloses
  BY <1>16 DEF PipeCloses
<1>17. CASE DashSeesStop
  BY <1>17 DEF DashSeesStop
<1>18. CASE DashReads
  BY <1>18 DEF DashReads
<1>19. CASE DashRefuses
  BY <1>19 DEF DashRefuses
<1>20. CASE DashEnters
  BY <1>20 DEF DashEnters, Enter
<1>21. CASE DashReloads
  BY <1>21 DEF DashReloads, Reload
<1>22. CASE DashReplaces
  BY <1>22 DEF DashReplaces, Replace
<1>23. CASE DashLeaves
  BY <1>23 DEF DashLeaves, Leave
<1>24. CASE UpdateDashboard
  BY <1>24 DEF UpdateDashboard
<1>25. CASE RestartDashboard
  BY <1>25 DEF RestartDashboard
<1>26. CASE ReportDashboard
  BY <1>26 DEF ReportDashboard
<1>27. CASE PollEnters
  BY <1>27 DEF PollEnters, Enter
<1>28. CASE PollReloads
  BY <1>28 DEF PollReloads, Reload
<1>29. CASE PollReplaces
  BY <1>29 DEF PollReplaces, Replace
<1>30. CASE PollLeaves
  BY <1>30 DEF PollLeaves, Leave
<1>31. CASE Wait
  BY <1>31 DEF Wait
<1>32. CASE StopDashboard
  BY <1>32 DEF StopDashboard
<1>33. CASE StopPipe
  BY <1>33 DEF StopPipe
<1>34. CASE RestoreEnters
  BY <1>34 DEF RestoreEnters, Enter
<1>35. CASE RestoreLeaves
  BY <1>35 DEF RestoreLeaves, Leave
<1>36. CASE StopCoordination
  BY <1>36 DEF StopCoordination
<1>37. CASE UNCHANGED vars
  BY <1>37 DEF vars
<1>38. CASE PipeClientWrites
  BY <1>38 DEF PipeClientWrites
<1>39. CASE PipeClientReads
  BY <1>39 DEF PipeClientReads
<1>40. CASE BrowserReads
  BY <1>40 DEF BrowserReads
<1>41. CASE ControllerReads
  BY <1>41 DEF ControllerReads
<1>42. CASE CoordSends
  BY <1>42 DEF CoordSends
<1> QED
  BY <1>1, <1>2, <1>3, <1>4, <1>5, <1>6, <1>7, <1>8, <1>9, <1>10, <1>11, <1>12, <1>13,
     <1>14, <1>15, <1>16, <1>17, <1>18, <1>19, <1>20, <1>21, <1>22, <1>23, <1>24, <1>25,
     <1>26, <1>27, <1>28, <1>29, <1>30, <1>31, <1>32, <1>33, <1>34, <1>35, <1>36, <1>37,
     <1>38, <1>39, <1>40, <1>41, <1>42 DEF
     Next, Outside, CoordStep, PipeStep, DashStep, MainStep

(* The processes are restored after the last local command                 *)
(* (Daemon.cpp:339-348): the pipe and the dashboard have ended by then.    *)
THEOREM LocalCommandsOver == Spec => []LocalCommandsAreOver
<1>1. Init => Stopped
  BY DEF Init, Stopped, LocalCommandsAreOver
<1> QED
  BY <1>1, StoppedInductive, TypeCorrect, PTL DEF Spec, Stopped

-----------------------------------------------------------------------------
(* A stop flag is raised, and stays raised, only while its joiner waits. *)
LEMMA JoinerInductive ==
  TypeOK /\ OneThreadInside /\ Stopped /\ StoppedByAJoiner /\ [Next]_vars => StoppedByAJoiner'
<1> SUFFICES ASSUME TypeOK, OneThreadInside, Stopped, StoppedByAJoiner, [Next]_vars
             PROVE  StoppedByAJoiner'
  OBVIOUS
<1>0. /\ main \in {"reload", "join_coord"} => owner = "main"
      /\ dash \in {"set_role", "join_coord"} => owner = "dash"
      /\ main \in {"stop_coord", "join_exit", "done"} => dash \in {"off", "exited"}
  <2>1. \A t \in {"main", "dash"} : t \in Inside => owner = t
    BY DEF OneThreadInside
  <2> QED
    BY <2>1 DEF Inside, Stopped, LocalCommandsAreOver
<1> USE DEF StoppedByAJoiner
<1>1. ASSUME NEW section \in ReloadableSections, EditFile(section) PROVE StoppedByAJoiner'
  BY <1>1, <1>0 DEF EditFile
<1>2. CASE RequestStop
  BY <1>2, <1>0 DEF RequestStop
<1>3. CASE PipeClient
  BY <1>3, <1>0 DEF PipeClient
<1>4. CASE Browser
  BY <1>4, <1>0 DEF Browser
<1>5. CASE Controller
  BY <1>5, <1>0 DEF Controller
<1>6. CASE CoordEnters
  BY <1>6, <1>0 DEF CoordEnters, Enter
<1>7. CASE CoordLeaves
  BY <1>7, <1>0 DEF CoordLeaves, Leave
<1>8. CASE CoordChecks
  BY <1>8, <1>0 DEF CoordChecks
<1>9. CASE CoordFails
  BY <1>9, <1>0 DEF CoordFails
<1>10. CASE CoordSeesStop
  BY <1>10, <1>0 DEF CoordSeesStop
<1>11. CASE PipeChecks
  BY <1>11, <1>0 DEF PipeChecks
<1>12. CASE PipeCreates
  BY <1>12, <1>0 DEF PipeCreates
<1>13. CASE PipeReads
  BY <1>13, <1>0 DEF PipeReads
<1>14. CASE PipeEnters
  BY <1>14, <1>0 DEF PipeEnters, Enter
<1>15. CASE PipeLeaves
  BY <1>15, <1>0 DEF PipeLeaves, Leave
<1>16. CASE PipeCloses
  BY <1>16, <1>0 DEF PipeCloses
<1>17. CASE DashSeesStop
  BY <1>17, <1>0 DEF DashSeesStop
<1>18. CASE DashReads
  BY <1>18, <1>0 DEF DashReads
<1>19. CASE DashRefuses
  BY <1>19, <1>0 DEF DashRefuses
<1>20. CASE DashEnters
  BY <1>20, <1>0 DEF DashEnters, Enter
<1>21. CASE DashReloads
  BY <1>21, <1>0 DEF DashReloads, Reload
<1>22. CASE DashReplaces
  BY <1>22, <1>0 DEF DashReplaces, Replace
<1>23. CASE DashLeaves
  BY <1>23, <1>0 DEF DashLeaves, Leave
<1>24. CASE UpdateDashboard
  BY <1>24, <1>0 DEF UpdateDashboard
<1>25. CASE RestartDashboard
  BY <1>25, <1>0 DEF RestartDashboard
<1>26. CASE ReportDashboard
  BY <1>26, <1>0 DEF ReportDashboard
<1>27. CASE PollEnters
  BY <1>27, <1>0 DEF PollEnters, Enter
<1>28. CASE PollReloads
  BY <1>28, <1>0 DEF PollReloads, Reload
<1>29. CASE PollReplaces
  BY <1>29, <1>0 DEF PollReplaces, Replace
<1>30. CASE PollLeaves
  BY <1>30, <1>0 DEF PollLeaves, Leave
<1>31. CASE Wait
  BY <1>31, <1>0 DEF Wait
<1>32. CASE StopDashboard
  BY <1>32, <1>0 DEF StopDashboard
<1>33. CASE StopPipe
  BY <1>33, <1>0 DEF StopPipe
<1>34. CASE RestoreEnters
  BY <1>34, <1>0 DEF RestoreEnters, Enter
<1>35. CASE RestoreLeaves
  BY <1>35, <1>0 DEF RestoreLeaves, Leave
<1>36. CASE StopCoordination
  BY <1>36, <1>0 DEF StopCoordination
<1>37. CASE UNCHANGED vars
  BY <1>37 DEF vars
<1>38. CASE PipeClientWrites
  BY <1>38 DEF PipeClientWrites
<1>39. CASE PipeClientReads
  BY <1>39 DEF PipeClientReads
<1>40. CASE BrowserReads
  BY <1>40 DEF BrowserReads
<1>41. CASE ControllerReads
  BY <1>41 DEF ControllerReads
<1>42. CASE CoordSends
  BY <1>42 DEF CoordSends
<1> QED
  BY <1>1, <1>2, <1>3, <1>4, <1>5, <1>6, <1>7, <1>8, <1>9, <1>10, <1>11, <1>12, <1>13,
     <1>14, <1>15, <1>16, <1>17, <1>18, <1>19, <1>20, <1>21, <1>22, <1>23, <1>24, <1>25,
     <1>26, <1>27, <1>28, <1>29, <1>30, <1>31, <1>32, <1>33, <1>34, <1>35, <1>36, <1>37,
     <1>38, <1>39, <1>40, <1>41, <1>42 DEF
     Next, Outside, CoordStep, PipeStep, DashStep, MainStep

(* No thread outlives the object that replaced it, and none is told to     *)
(* stop but by somebody who waits for it (ControlPipe.cpp:39,              *)
(* HttpServer.cpp:107, Coordination.cpp:60).                               *)
THEOREM ThreadsJoined == Spec => []StoppedByAJoiner
<1>1. Init => Stopped /\ StoppedByAJoiner
  BY DEF Init, Stopped, LocalCommandsAreOver, StoppedByAJoiner
<1> QED
  BY <1>1, StoppedInductive, JoinerInductive, TypeCorrect, OneThread, PTL DEF Spec

-----------------------------------------------------------------------------
(***************************************************************************)
(* Auto-protect, for any applications, rules and loads.                    *)
(***************************************************************************)

USE AutoProtectAssumption

-----------------------------------------------------------------------------
(* Ranks order the classes; a target is one of the two lower ones.         *)
LEMMA RankType ==
  /\ \A c \in Classes : Rank[c] \in 0 .. 3
  /\ \A l : Target(l) \in {"idle", "below_normal"} /\ Target(l) \in Classes
BY DEF Rank, Classes, Target

(* The level after a tick stays in Levels, whatever load was measured. *)
LEMMA CountedType ==
  ASSUME NEW l \in Levels, NEW x \in Loads, NEW r \in Rules
  PROVE  [Counted(l, x, r) EXCEPT !.name = NextLevel(Counted(l, x, r), r)] \in Levels
<1>1. Counted(l, x, r) \in Levels
  <2>1. /\ Grown(l.high, x >= r.throttle) \in 0 .. CounterCap
        /\ Grown(l.extreme, x >= r.idle) \in 0 .. CounterCap
        /\ Grown(l.low, x < r.recover) \in 0 .. CounterCap
    BY DEF Grown, Levels
  <2> QED
    BY <2>1 DEF Counted, Levels
<1>2. NextLevel(Counted(l, x, r), r) \in {"normal", "throttle", "idle"}
  BY <1>1 DEF NextLevel, Levels
<1> QED
  BY <1>1, <1>2 DEF Levels

(* What a tick above the normal level makes of one entry and one class.    *)
LEMMA TickedEntry ==
  ASSUME ProtectTypeOK, NEW chosen \in SUBSET Pids, NEW denied \in SUBSET Pids,
         TickElevated(chosen, denied), NEW p \in Pids
  PROVE  \/ /\ p \in Lowered \cap running /\ UNCHANGED <<throttled[p], class[p]>>
         \/ /\ p \in Lowered \cap running
            /\ throttled'[p] \in Entries /\ class'[p] \in Classes
            /\ throttled'[p].original = throttled[p].original
            /\ throttled'[p].current = class'[p]
            /\ Rank[class'[p]] < Rank[throttled[p].current]
         \/ /\ p \in Eligible(exempt')
            /\ throttled'[p] \in Entries /\ class'[p] \in Classes
            /\ throttled'[p].original = class[p] /\ throttled'[p].current = class'[p]
            /\ Rank[class'[p]] < Rank[class[p]]
         \/ p \notin Lowered \cap running /\ throttled'[p] = NoEntry /\ class'[p] = class[p]
<1> DEFINE target == Target(level'.name)
           taken  == {q \in chosen \ denied : Rank[class[q]] > Rank[target]}
           lower  == Rank[throttled[p].current] > Rank[target] /\ p \notin denied
<1>1. /\ throttled'[p] = IF p \in Lowered \cap running THEN Escalated(p, target, denied)
                         ELSE IF p \in taken THEN [original |-> class[p], current |-> target]
                         ELSE NoEntry
      /\ class'[p] = IF p \in taken \/ (p \in Lowered \cap running /\ lower) THEN target ELSE class[p]
      /\ chosen \subseteq Eligible(exempt \cap running) /\ exempt' = exempt \cap running
  BY DEF TickElevated
<1>2. target \in Classes /\ class[p] \in Classes
  BY RankType DEF ProtectTypeOK
<1>3. CASE p \in Lowered \cap running
  <2>1. p \notin taken
    BY <1>1, <1>3 DEF Eligible
  <2>2. throttled[p] \in Entries
    BY <1>3 DEF ProtectTypeOK, Lowered
  <2> QED
    BY <1>1, <1>2, <1>3, <2>1, <2>2 DEF Escalated, Entries
<1>4. CASE p \notin Lowered \cap running
  BY <1>1, <1>2, <1>4 DEF Entries
<1> QED
  BY <1>3, <1>4

-----------------------------------------------------------------------------
(* Every variable stays in its range. *)
THEOREM ProtectTypeCorrect == ProtectSpec => []ProtectTypeOK
<1>1. ProtectInit => ProtectTypeOK
  BY DEF ProtectInit, ProtectTypeOK, Calm, Levels, Nobody, Classes
<1>2. ProtectTypeOK /\ [ProtectNext]_protectVars => ProtectTypeOK'
  <2> SUFFICES ASSUME ProtectTypeOK, [ProtectNext]_protectVars PROVE ProtectTypeOK'
    OBVIOUS
  <2> USE DEF ProtectTypeOK, own, world
  <2>1. ASSUME NEW p \in Pids, NEW c \in StartClasses, NEW isListed \in BOOLEAN,
               ProcessStarts(p, c, isListed)
        PROVE  ProtectTypeOK'
    BY <2>1 DEF ProcessStarts
  <2>2. ASSUME NEW p \in Pids, ProcessExits(p) PROVE ProtectTypeOK'
    BY <2>2 DEF ProcessExits
  <2>3. ASSUME NEW x \in Loads, NEW chosen \in SUBSET Pids, NEW denied \in SUBSET Pids,
               Tick(x, chosen, denied)
        PROVE  ProtectTypeOK'
    <3>1. level' \in Levels
      BY <2>3, CountedType DEF Tick
    <3>2. CASE TickNormal
      BY <2>3, <3>1, <3>2 DEF Tick, TickNormal, Restored, Nobody, Lowered, Entries
    <3>3. CASE TickElevated(chosen, denied)
      <4>1. \A p \in Pids : throttled'[p] \in Entries \cup {NoEntry} /\ class'[p] \in Classes
        BY <3>3, TickedEntry
      <4>2. /\ throttled' = [p \in Pids |-> throttled'[p]] /\ class' = [p \in Pids |-> class'[p]]
            /\ exempt' \subseteq exempt
        BY <3>3 DEF TickElevated
      <4> QED
        BY <2>3, <3>1, <4>1, <4>2 DEF Tick
    <3> QED
      BY <2>3, <3>2, <3>3 DEF Tick
  <2>4. ASSUME NEW r \in Rules, NEW names \in SUBSET Pids, Configure(r, names)
        PROVE  ProtectTypeOK'
    BY <2>4 DEF Configure, Restored, Without, Calm, Levels, Entries, Lowered
  <2>5. ASSUME NEW p \in Pids, Exempt(p) PROVE ProtectTypeOK'
    BY <2>5 DEF Exempt, Restored, Without, Lowered, Entries
  <2>6. ASSUME NEW p \in Pids, ActuatorThrottles(p) PROVE ProtectTypeOK'
    BY <2>6 DEF ActuatorThrottles, Classes
  <2>7. ASSUME NEW p \in Pids, ActuatorRecovers(p) PROVE ProtectTypeOK'
    BY <2>7 DEF ActuatorRecovers, Classes
  <2>8. CASE UNCHANGED protectVars
    BY <2>8 DEF protectVars
  <2> HIDE DEF ProtectTypeOK
  <2> QED
    BY <2>1, <2>2, <2>3, <2>4, <2>5, <2>6, <2>7, <2>8
       DEF ProtectNext, Ticks
<1> QED
  BY <1>1, <1>2, PTL DEF ProtectSpec

-----------------------------------------------------------------------------
(* Nobody is lowered at the normal level, nor when the feature is off      *)
(* (AutoProtect.cpp:104-113, Daemon.cpp:244-268).                          *)
THEOREM NobodyWhenCalm == ProtectSpec => []CalmMeansNobody
<1>1. ProtectInit => CalmMeansNobody
  BY DEF ProtectInit, CalmMeansNobody, Calm, Nobody, Lowered
<1>2. ProtectTypeOK /\ CalmMeansNobody /\ [ProtectNext]_protectVars => CalmMeansNobody'
  <2> SUFFICES ASSUME ProtectTypeOK, CalmMeansNobody, [ProtectNext]_protectVars PROVE CalmMeansNobody'
    OBVIOUS
  <2> USE DEF CalmMeansNobody, Lowered, own, world
  <2>1. ASSUME NEW p \in Pids, NEW c \in StartClasses, NEW isListed \in BOOLEAN,
               ProcessStarts(p, c, isListed)
        PROVE  CalmMeansNobody'
    BY <2>1 DEF ProcessStarts
  <2>2. ASSUME NEW p \in Pids, ProcessExits(p) PROVE CalmMeansNobody'
    BY <2>2 DEF ProcessExits
  <2>3. ASSUME NEW x \in Loads, NEW chosen \in SUBSET Pids, NEW denied \in SUBSET Pids,
               Tick(x, chosen, denied)
        PROVE  CalmMeansNobody'
    BY <2>3 DEF Tick, TickNormal, TickElevated, Nobody
  <2>4. ASSUME NEW r \in Rules, NEW names \in SUBSET Pids, Configure(r, names)
        PROVE  CalmMeansNobody'
    BY <2>4 DEF Configure, Without
  <2>5. ASSUME NEW p \in Pids, Exempt(p) PROVE CalmMeansNobody'
    BY <2>5 DEF Exempt, Without
  <2>6. ASSUME NEW p \in Pids, ActuatorThrottles(p) PROVE CalmMeansNobody'
    BY <2>6 DEF ActuatorThrottles
  <2>7. ASSUME NEW p \in Pids, ActuatorRecovers(p) PROVE CalmMeansNobody'
    BY <2>7 DEF ActuatorRecovers
  <2>8. CASE UNCHANGED protectVars
    BY <2>8 DEF protectVars
  <2> QED
    BY <2>1, <2>2, <2>3, <2>4, <2>5, <2>6, <2>7, <2>8
       DEF ProtectNext, Ticks
<1> QED
  BY <1>1, <1>2, ProtectTypeCorrect, PTL DEF ProtectSpec

-----------------------------------------------------------------------------
(* As long as operators leave the lowered processes alone, nobody is       *)
(* lowered and managed by the Actuator at once; each process without an    *)
(* entry has the class it would have had, an entry remembers that class    *)
(* and is lower than it, and no listed or exempted process has one.        *)
Ordinary ==
  /\ Lowered \cap managed = {}
  /\ ExactlyRestored
  /\ OnlyOrdinary

(* While the Actuator keeps off, every entry is an ordinary application with
   the class it had before and the class it was given. *)
LEMMA OrdinaryInvariant == ASSUME ~Overlap PROVE ProtectSpec => []Ordinary
<1>1. ProtectInit => Ordinary
  BY DEF ProtectInit, Ordinary, ExactlyRestored, OnlyOrdinary, Nobody, Lowered
<1>2. ProtectTypeOK /\ Ordinary /\ [ProtectNext]_protectVars => Ordinary'
  <2> SUFFICES ASSUME ProtectTypeOK, Ordinary, [ProtectNext]_protectVars PROVE Ordinary'
    OBVIOUS
  <2> USE DEF ProtectTypeOK, Ordinary, ExactlyRestored, OnlyOrdinary, Lowered, own, world
  <2>1. ASSUME NEW p \in Pids, NEW c \in StartClasses, NEW isListed \in BOOLEAN,
               ProcessStarts(p, c, isListed)
        PROVE  Ordinary'
    BY <2>1 DEF ProcessStarts
  <2>2. ASSUME NEW p \in Pids, ProcessExits(p) PROVE Ordinary'
    BY <2>2 DEF ProcessExits
  <2>3. ASSUME NEW x \in Loads, NEW chosen \in SUBSET Pids, NEW denied \in SUBSET Pids,
               Tick(x, chosen, denied)
        PROVE  Ordinary'
    <3>1. UNCHANGED <<running, listed, managed, due>>
      BY <2>3 DEF Tick
    <3>2. CASE TickNormal
      BY <3>1, <3>2 DEF TickNormal, Restored, Nobody
    <3>3. CASE TickElevated(chosen, denied)
      <4>1. exempt' \subseteq exempt
        BY <3>3 DEF TickElevated
      <4>2. ASSUME NEW p \in Pids
            PROVE  /\ p \in Lowered' => p \notin managed
                   /\ p \in running /\ p \notin Lowered' => class'[p] = due[p]
                   /\ p \in running /\ p \in Lowered' =>
                        /\ throttled'[p].original = due[p] /\ class'[p] = throttled'[p].current
                        /\ Rank[throttled'[p].current] < Rank[throttled'[p].original]
                        /\ p \notin listed \cup managed \cup exempt'
        BY <3>3, <4>1, TickedEntry, RankType DEF Eligible, Entries
      <4> QED
        BY <3>1, <4>2
    <3> QED
      BY <2>3, <3>2, <3>3 DEF Tick
  <2>4. ASSUME NEW r \in Rules, NEW names \in SUBSET Pids, Configure(r, names)
        PROVE  Ordinary'
    BY <2>4 DEF Configure, Restored, Without
  <2>5. ASSUME NEW p \in Pids, Exempt(p) PROVE Ordinary'
    BY <2>5 DEF Exempt, Restored, Without
  <2>6. ASSUME NEW p \in Pids, ActuatorThrottles(p) PROVE Ordinary'
    BY <2>6 DEF ActuatorThrottles
  <2>7. ASSUME NEW p \in Pids, ActuatorRecovers(p) PROVE Ordinary'
    BY <2>7 DEF ActuatorRecovers
  <2>8. CASE UNCHANGED protectVars
    BY <2>8 DEF protectVars
  <2> HIDE DEF ProtectTypeOK, Ordinary
  <2> QED
    BY <2>1, <2>2, <2>3, <2>4, <2>5, <2>6, <2>7, <2>8
       DEF ProtectNext, Ticks
<1> QED
  BY <1>1, <1>2, ProtectTypeCorrect, PTL DEF ProtectSpec

(* Each process's original priority class is restored exactly              *)
(* (AutoProtect.h:20-21).                                                  *)
THEOREM RestoredExactly == ASSUME ~Overlap PROVE ProtectSpec => []ExactlyRestored
  BY OrdinaryInvariant, PTL DEF Ordinary

(* Only ordinary applications are lowered, and never raised                *)
(* (AutoProtect.h:16-20).                                                  *)
THEOREM OrdinaryOnly == ASSUME ~Overlap PROVE ProtectSpec => []OnlyOrdinary
  BY OrdinaryInvariant, PTL DEF Ordinary

HIDE AutoProtectAssumption

-----------------------------------------------------------------------------
(***************************************************************************)
(* The log, for any file sizes and numbers of files.                       *)
(***************************************************************************)

USE LogChainAssumption

-----------------------------------------------------------------------------
(* The lines that can exist before line n is written. *)
Lines(n) == [hash : 1 .. n - 1, prev : Empty .. n - 1, whole : BOOLEAN]

(* Rotated file j is the next one with lines behind file i. *)
Adjacent(F, i, j) ==
  /\ i < j /\ F[i] # <<>> /\ F[j] # <<>>
  /\ \A m \in Indices : i < m /\ m < j => F[m] = <<>>

Newest(F, i) == F[i] # <<>> /\ \A m \in Indices : m < i => F[m] = <<>>

(* Every file is intact by itself and begins where the one behind it ends, *)
(* and the log ends with hash h.                                           *)
Sound(F, h) ==
  /\ \A i \in Indices : Intact(F[i], Empty)
  /\ \A i, j \in Indices : Adjacent(F, i, j) => F[i][1].prev \in {Empty, LastLineHash(F[j])}
  /\ h # Empty => \A i \in Indices : Newest(F, i) => LastLineHash(F[i]) = h

LEMMA LinesGrow ==
  ASSUME NEW n \in Nat \ {0}
  PROVE  Lines(n) \subseteq Lines(n + 1) /\ Seq(Lines(n)) \subseteq Seq(Lines(n + 1))
<1>1. Lines(n) \subseteq Lines(n + 1)
  BY DEF Lines, Empty
<1> QED
  BY <1>1, SeqMonotonic

(* The last line of a file, and a file with one line more. *)
LEMMA LastOf ==
  ASSUME NEW n \in Nat \ {0}, NEW f \in Seq(Lines(n))
  PROVE  /\ Len(f) \in Nat /\ (f # <<>> => Len(f) > 0 /\ f[Len(f)] \in Lines(n) /\ f[1] \in Lines(n))
         /\ LastLineHash(f) \in Empty .. n - 1 /\ (LastLineHash(f) = Empty <=> f = <<>>)
         /\ DOMAIN f = 1 .. Len(f)
<1>1. Len(f) \in Nat /\ (f # <<>> => Len(f) > 0) /\ \A k \in 1 .. Len(f) : f[k] \in Lines(n)
  BY EmptySeq, LenProperties
<1>2. CASE f = <<>>
  BY <1>1, <1>2, LenProperties DEF LastLineHash, Empty
<1>3. CASE f # <<>>
  <2>1. f[Len(f)] \in Lines(n) /\ f[1] \in Lines(n)
    BY <1>1, <1>3
  <2>2. f[Len(f)].hash \in 1 .. n - 1
    BY <2>1 DEF Lines
  <2> QED
    BY <1>1, <1>3, <2>1, <2>2, LenProperties DEF LastLineHash, Empty
<1> QED
  BY <1>2, <1>3

LEMMA AppendedType ==
  ASSUME NEW n \in Nat \ {0}, NEW f \in Seq(Lines(n)), NEW l \in Lines(n)
  PROVE  /\ Appended(f, l) \in Seq(Lines(n)) /\ Appended(f, l) # <<>>
         /\ (f = <<>> \/ f[Len(f)].whole) => Appended(f, l) = Append(f, l)
<1>1. CASE f # <<>> /\ ~f[Len(f)].whole
  <2> DEFINE cutShort == Line(l.hash, Empty, FALSE)
  <2>1. cutShort \in Lines(n)
    BY DEF Line, Lines, Empty
  <2>2. Len(f) \in 1 .. Len(f)
    BY <1>1, LastOf
  <2>3. /\ Appended(f, l) = [f EXCEPT ![Len(f)] = cutShort]
        /\ [f EXCEPT ![Len(f)] = cutShort] \in Seq(Lines(n))
        /\ Len([f EXCEPT ![Len(f)] = cutShort]) = Len(f)
    <3> HIDE DEF cutShort
    <3>1. [f EXCEPT ![Len(f)] = cutShort] \in Seq(Lines(n)) /\ Len([f EXCEPT ![Len(f)] = cutShort]) = Len(f)
      BY <2>1, <2>2, ExceptSeq
    <3> QED
      BY <1>1, <3>1 DEF Appended, cutShort
  <2>4. Len(f) > 0
    BY <1>1, LastOf
  <2> QED
    BY <1>1, <2>3, <2>4, EmptySeq
<1>2. CASE f = <<>> \/ f[Len(f)].whole
  <2>1. Appended(f, l) = Append(f, l)
    BY <1>2 DEF Appended
  <2>2. Append(f, l) \in Seq(Lines(n)) /\ Append(f, l) # <<>>
    BY AppendProperties
  <2> QED
    BY <2>1, <2>2
<1> QED
  BY <1>1, <1>2

-----------------------------------------------------------------------------
(* What happens to a log that is sound.                                    *)

Logs(n) == [Indices -> Seq(Lines(n))]

LEMMA EmptyIntact == \A want : Intact(<<>>, want)
BY DEF Intact

(* A line chained to the last one of a file that is intact. *)
LEMMA AppendIntact ==
  ASSUME NEW n \in Nat \ {0}, NEW f \in Seq(Lines(n)), NEW l \in Lines(n),
         Intact(f, Empty), l.whole, l.prev # Empty, f # <<>> => l.prev = LastLineHash(f)
  PROVE  Intact(Append(f, l), Empty) /\ (f # <<>> => Append(f, l)[1] = f[1])
         /\ LastLineHash(Append(f, l)) = l.hash
<1> DEFINE g == Append(f, l)
<1>1. /\ g \in Seq(Lines(n)) /\ g # <<>> /\ Len(g) = Len(f) + 1 /\ Len(f) \in Nat
      /\ \A k \in 1 .. Len(f) : g[k] = f[k]
      /\ g[Len(f) + 1] = l
  BY AppendProperties, LenProperties
<1>2. DOMAIN g = 1 .. Len(f) + 1 /\ DOMAIN f = 1 .. Len(f)
  BY <1>1, LenProperties
<1>3. f # <<>> => Len(f) > 0 /\ l.prev = f[Len(f)].hash
  BY LastOf DEF LastLineHash
<1>4. f = <<>> <=> Len(f) = 0
  BY <1>3, EmptySeq
<1> HIDE DEF g
<1>5. \A k \in DOMAIN g : g[k].whole
  BY <1>1, <1>2 DEF Intact
<1>6. \A j, k \in DOMAIN g : j < k /\ g[j].prev # Empty => g[k].prev # Empty
  <2> SUFFICES ASSUME NEW j \in DOMAIN g, NEW k \in DOMAIN g, j < k, g[j].prev # Empty
               PROVE  g[k].prev # Empty
    OBVIOUS
  <2>1. CASE k = Len(f) + 1
    BY <1>1, <2>1
  <2>2. CASE k # Len(f) + 1
    <3>1. j \in 1 .. Len(f) /\ k \in 1 .. Len(f)
      BY <1>1, <1>2, <2>2
    <3> QED
      BY <1>1, <1>2, <3>1 DEF Intact
  <2> QED
    BY <2>1, <2>2
<1>7. \A k \in DOMAIN g : g[k].prev # Empty /\ k > 1 => g[k].prev = g[k - 1].hash
  <2> SUFFICES ASSUME NEW k \in DOMAIN g, g[k].prev # Empty, k > 1
               PROVE  g[k].prev = g[k - 1].hash
    OBVIOUS
  <2>1. CASE k = Len(f) + 1
    BY <1>1, <1>2, <1>3, <1>4, <2>1
  <2>2. CASE k # Len(f) + 1
    <3>1. k \in 1 .. Len(f) /\ k - 1 \in 1 .. Len(f)
      BY <1>1, <1>2, <2>2
    <3> QED
      BY <1>1, <1>2, <3>1 DEF Intact
  <2> QED
    BY <2>1, <2>2
<1>8. Intact(g, Empty)
  BY <1>5, <1>6, <1>7 DEF Intact
<1>9. (f # <<>> => g[1] = f[1]) /\ LastLineHash(g) = l.hash
  BY <1>1, <1>3 DEF LastLineHash
<1> QED
  BY <1>8, <1>9 DEF g

(* Deleting a file breaks no link unless an older one is left over. *)
LEMMA DropSound ==
  ASSUME NEW n \in Nat \ {0}, NEW F \in Logs(n), NEW h \in Int, Sound(F, h), NEW d \in Indices,
         F[d] # <<>> => \A i \in Indices : d < i => F[i] = <<>>
  PROVE  Sound([F EXCEPT ![d] = <<>>], h)
<1> DEFINE G == [F EXCEPT ![d] = <<>>]
<1>1. d \in Nat /\ \A i \in Indices : i \in Nat
  BY DEF Indices
<1>2. G[d] = <<>> /\ \A i \in Indices : i # d => G[i] = F[i]
  BY <1>1 DEF Logs
<1> HIDE DEF G
<1>3. \A i \in Indices : Intact(G[i], Empty)
  BY <1>2, EmptyIntact DEF Sound
<1>4. ASSUME NEW i \in Indices, NEW j \in Indices, Adjacent(G, i, j)
      PROVE  G[i][1].prev \in {Empty, LastLineHash(G[j])}
  <2>1. i # d /\ j # d
    BY <1>2, <1>4 DEF Adjacent
  <2>2. F[d] # <<>> => j < d
    BY <1>1, <1>2, <1>4, <2>1 DEF Adjacent
  <2>3. ASSUME NEW m \in Indices, m < j, F[d] # <<>>
        PROVE  m # d
    <3>1. j < d /\ d \in Nat /\ m \in Nat /\ j \in Nat
      BY <1>1, <2>2, <2>3
    <3> QED
      BY <2>3, <3>1
  <2>4. Adjacent(F, i, j)
    BY <1>2, <1>4, <2>1, <2>3 DEF Adjacent
  <2> QED
    BY <1>2, <2>1, <2>4 DEF Sound
<1>5. ASSUME h # Empty, NEW i \in Indices, Newest(G, i)
      PROVE  LastLineHash(G[i]) = h
  <2>1. i # d
    BY <1>2, <1>5 DEF Newest
  <2>2. F[d] # <<>> => i < d
    BY <1>1, <1>2, <1>5, <2>1 DEF Newest
  <2>3. ASSUME NEW m \in Indices, m < i, F[d] # <<>>
        PROVE  m # d
    <3>1. i < d /\ d \in Nat /\ m \in Nat /\ i \in Nat
      BY <1>1, <2>2, <2>3
    <3> QED
      BY <2>3, <3>1
  <2>4. Newest(F, i)
    BY <1>2, <1>5, <2>1, <2>3 DEF Newest
  <2> QED
    BY <1>2, <1>5, <2>1, <2>4 DEF Sound
<1> QED
  BY <1>3, <1>4, <1>5 DEF Sound, G

(* Nor does a rename into a free place, or over a file without an older one. *)
LEMMA MoveSound ==
  ASSUME NEW n \in Nat \ {0}, NEW F \in Logs(n), NEW h \in Int, Sound(F, h),
         NEW s \in 0 .. MaxRotated - 1, F[s] # <<>>, F[s + 1] # <<>> => \A i \in Indices : s + 1 < i => F[i] = <<>>
  PROVE  Sound([F EXCEPT ![s + 1] = F[s], ![s] = <<>>], h)
<1> DEFINE G == [F EXCEPT ![s + 1] = F[s], ![s] = <<>>]
<1>1. s \in Indices /\ s + 1 \in Indices /\ s \in Nat /\ s + 1 # s
      /\ \A i \in Indices : i <= MaxRotated /\ i \in Nat
  BY DEF Indices
<1>2. G[s + 1] = F[s] /\ G[s] = <<>> /\ \A i \in Indices \ {s, s + 1} : G[i] = F[i]
  BY <1>1 DEF Logs
<1> HIDE DEF G
<1>3. \A i \in Indices : Intact(G[i], Empty)
  BY <1>1, <1>2, EmptyIntact DEF Sound
<1>4. ASSUME NEW i \in Indices, NEW j \in Indices, Adjacent(G, i, j)
      PROVE  G[i][1].prev \in {Empty, LastLineHash(G[j])}
  <2>1. i # s /\ j # s /\ i < j
    BY <1>2, <1>4 DEF Adjacent
  <2>2. CASE i = s + 1
    <3>1. F[s + 1] = <<>> /\ j \notin {s, s + 1} /\ s < j
      <4>1. j \notin {s, s + 1} /\ s < j
        BY <1>1, <2>1, <2>2
      <4>2. F[j] # <<>>
        BY <1>2, <1>4, <4>1 DEF Adjacent
      <4> QED
        BY <2>1, <2>2, <4>1, <4>2
    <3>2. \A m \in Indices : s < m /\ m < j => F[m] = <<>>
      BY <1>1, <1>2, <1>4, <2>2, <3>1 DEF Adjacent
    <3>3. Adjacent(F, s, j)
      BY <1>2, <1>4, <3>1, <3>2 DEF Adjacent
    <3> QED
      BY <1>1, <1>2, <2>2, <3>1, <3>3 DEF Sound
  <2>3. CASE j = s + 1
    <3>1. i \notin {s, s + 1} /\ i < s
      BY <1>1, <2>1, <2>3
    <3>2. \A m \in Indices : i < m /\ m < s => m < j /\ m \notin {s, s + 1}
      BY <1>1, <2>3
    <3>3. Adjacent(F, i, s)
      BY <1>2, <1>4, <3>1, <3>2 DEF Adjacent
    <3> QED
      BY <1>1, <1>2, <2>3, <3>1, <3>3 DEF Sound
  <2>4. CASE i # s + 1 /\ j # s + 1
    <3>1. i \notin {s, s + 1} /\ j \notin {s, s + 1}
      BY <2>1, <2>4
    <3>2. ~(i < s + 1 /\ s + 1 < j)
      BY <1>1, <1>2, <1>4 DEF Adjacent
    <3>3. ~(i < s /\ s < j)
      BY <1>1, <2>1, <2>4, <3>2
    <3>4. \A m \in Indices : i < m /\ m < j => m \notin {s, s + 1}
      BY <1>1, <3>2, <3>3
    <3>5. Adjacent(F, i, j)
      BY <1>2, <1>4, <3>1, <3>4 DEF Adjacent
    <3> QED
      BY <1>2, <3>1, <3>5 DEF Sound
  <2> QED
    BY <2>2, <2>3, <2>4
<1>5. ASSUME h # Empty, NEW i \in Indices, Newest(G, i)
      PROVE  LastLineHash(G[i]) = h
  <2>1. i # s /\ (s + 1 < i => FALSE)
    BY <1>1, <1>2, <1>5 DEF Newest
  <2>2. CASE i = s + 1
    <3>1. \A m \in Indices : m < s => m < i /\ m \notin {s, s + 1}
      BY <1>1, <2>2
    <3>2. Newest(F, s)
      BY <1>2, <1>5, <3>1 DEF Newest
    <3> QED
      BY <1>1, <1>2, <1>5, <2>2, <3>2 DEF Sound
  <2>3. CASE i < s
    <3>1. \A m \in Indices : m < i => m \notin {s, s + 1}
      BY <1>1, <2>3
    <3>2. i \notin {s, s + 1}
      BY <1>1, <2>3
    <3>3. Newest(F, i)
      BY <1>2, <1>5, <3>1, <3>2 DEF Newest
    <3> QED
      BY <1>2, <1>5, <3>2, <3>3 DEF Sound
  <2> QED
    BY <1>1, <2>1, <2>2, <2>3
<1> QED
  BY <1>3, <1>4, <1>5 DEF Sound, G

(* A line chained to the last one of the log. *)
LEMMA WriteSound ==
  ASSUME NEW n \in Nat \ {0}, NEW F \in Logs(n), NEW h \in Int, Sound(F, h), h # Empty,
         NEW l \in Lines(n), l.whole, l.prev = h
  PROVE  Sound([F EXCEPT ![0] = Append(F[0], l)], l.hash)
<1> DEFINE G == [F EXCEPT ![0] = Append(F[0], l)]
<1>1. 0 \in Indices /\ \A i \in Indices : i <= MaxRotated /\ i \in Nat
  BY DEF Indices
<1>2. F[0] \in Seq(Lines(n)) /\ G[0] = Append(F[0], l) /\ \A i \in Indices \ {0} : G[i] = F[i]
  BY <1>1 DEF Logs
<1>3. G[0] # <<>>
  BY <1>2, AppendProperties
<1>4. F[0] # <<>> => LastLineHash(F[0]) = h
  <2>1. F[0] # <<>> => Newest(F, 0)
    BY <1>1 DEF Newest
  <2> QED
    BY <1>1, <2>1 DEF Sound
<1>5. Intact(G[0], Empty) /\ (F[0] # <<>> => G[0][1] = F[0][1]) /\ LastLineHash(G[0]) = l.hash
  BY <1>1, <1>2, <1>4, AppendIntact DEF Sound
<1>6. F[0] = <<>> => G[0][1] = l
  BY <1>2, EmptySeq, AppendProperties
<1> HIDE DEF G
<1>7. \A i \in Indices : Intact(G[i], Empty)
  BY <1>2, <1>5 DEF Sound
<1>8. ASSUME NEW i \in Indices, NEW j \in Indices, Adjacent(G, i, j)
      PROVE  G[i][1].prev \in {Empty, LastLineHash(G[j])}
  <2>1. j # 0 /\ (\A m \in Indices : i < m /\ m < j => m # 0) /\ F[j] # <<>> /\ G[j] = F[j] /\ i < j
    BY <1>1, <1>2, <1>8 DEF Adjacent
  <2>2. CASE F[i] # <<>>
    <3>1. Adjacent(F, i, j)
      BY <1>2, <1>8, <2>1, <2>2 DEF Adjacent
    <3>2. G[i][1] = F[i][1]
      BY <1>2, <1>5, <2>2
    <3> QED
      BY <2>1, <3>1, <3>2 DEF Sound
  <2>3. CASE F[i] = <<>>
    <3>1. i = 0
      BY <1>2, <1>8, <2>3 DEF Adjacent
    <3>2. \A m \in Indices : m < j => F[m] = <<>>
      BY <1>1, <1>2, <1>8, <2>1, <2>3, <3>1 DEF Adjacent
    <3>3. LastLineHash(F[j]) = h
      BY <2>1, <3>2 DEF Sound, Newest
    <3> QED
      BY <1>6, <2>1, <2>3, <3>1, <3>3
  <2> QED
    BY <2>2, <2>3
<1>9. ASSUME NEW i \in Indices, Newest(G, i)
      PROVE  LastLineHash(G[i]) = l.hash
  <2>1. i = 0
    BY <1>1, <1>3, <1>9 DEF Newest
  <2> QED
    BY <1>5, <2>1
<1> QED
  BY <1>7, <1>8, <1>9 DEF Sound, G

(* A start that reads the log, and finds none behind it when it is empty. *)
LEMMA ContinuedSound ==
  ASSUME NEW n \in Nat \ {0}, files \in Logs(n), NEW h \in Int, last = h, Sound(files, h),
         NEW found \in BOOLEAN,
         h = Empty => IF files[0] # <<>> THEN found ELSE \A i \in Indices : files[i] = <<>>
  PROVE  Sound(files, Continued(found))
<1>1. 0 \in Indices /\ files[0] \in Seq(Lines(n)) /\ \A i \in Indices : i \in Nat
  BY DEF Indices, Logs
<1>2. CASE h # Empty
  BY <1>2 DEF Continued
<1>3. CASE h = Empty /\ files[0] = <<>>
  <2>1. \A i \in Indices : files[i] = <<>>
    BY <1>3 DEF Continued
  <2> QED
    BY <2>1 DEF Sound, Newest, Adjacent
<1>4. CASE h = Empty /\ files[0] # <<>>
  <2>1. \A i \in Indices : Newest(files, i) => i = 0
    BY <1>1, <1>4 DEF Newest
  <2>2. Continued(found) = LastLineHash(files[0])
    BY <1>4 DEF Continued
  <2> QED
    BY <2>1, <2>2 DEF Sound
<1> QED
  BY <1>2, <1>3, <1>4

-----------------------------------------------------------------------------
(* The inductive invariant.                                                *)

(* A line under way is chained to the last one and has the next number;    *)
(* the log is closed while files are moved.                                *)
LogTyped ==
  /\ next \in Nat \ {0} /\ files \in Logs(next)
  /\ step \in {"idle", "close", "move", "reopen", "write"}
  /\ handle \in BOOLEAN /\ size \in Nat
  /\ last \in Empty .. next - 1
  /\ step # "idle" => chained = Line(next, last, TRUE) /\ last # Empty
  /\ step \in {"move", "reopen"} => ~handle
  /\ kept \in Indices /\ shifted \in 0 .. kept /\ (step = "move" => shifted < kept)
  /\ reader \in {"none", "looking", "reading"}
  /\ todo \subseteq Indices
  /\ expected \in Empty .. next - 1
  /\ verdict \in {"intact", "broken"}
  /\ harm \subseteq {"torn", "restarted", "unread", "overwritten", "stale"}
  /\ refused \subseteq Indices /\ moved \in BOOLEAN

(* Until a line is cut short every line is whole, and the logger counts    *)
(* right.                                                                  *)
Untorn ==
  "torn" \notin harm =>
    /\ \A i \in Indices : \A k \in DOMAIN files[i] : files[i][k].whole
    /\ handle => size = Len(files[0])

Unharmed == harm = {} => Sound(files, last)

(* The place a file is moved to is free, or its file could not be renamed. *)
Vacated ==
  step = "move" /\ shifted > 0 =>
    files[kept - shifted] = <<>> \/ kept - shifted \in refused

(* What verify-log expects is the end of the file it has just read: every  *)
(* rotated file with lines that is newer is still to be read.              *)
Expecting ==
  expected # Empty /\ todo # {} =>
    \E m \in Indices \ {0} :
      /\ files[m] # <<>> /\ expected = LastLineHash(files[m])
      /\ \A i \in todo : i < m
      /\ \A j \in Indices \ {0} : j < m /\ files[j] # <<>> => j \in todo

(* Unless a rotation comes in between, verify-log reads, oldest first,     *)
(* every rotated file that has lines.                                      *)
Following ==
  /\ reader = "none" => verdict = "intact"
  /\ harm = {} /\ ~moved /\ reader # "none" =>
     /\ step # "move" /\ verdict = "intact"
     /\ \A i \in todo : files[i] # <<>>
     /\ \A i \in todo, j \in Indices \ {0} : j < i /\ files[j] # <<>> => j \in todo
     /\ Expecting

LogInv == LogTyped /\ Untorn /\ Unharmed /\ Vacated /\ Following

LEMMA IndexRange == 0 \in Indices /\ MaxRotated \in Indices /\ \A i \in Indices : i \in Nat /\ i <= MaxRotated
BY DEF Indices

LEMMA InitLogInv == LogInit => LogInv
<1> SUFFICES ASSUME LogInit PROVE LogInv
  OBVIOUS
<1> USE IndexRange
<1>1. PICK n \in Old : /\ files = [i \in Indices |-> IF i = 0 THEN [k \in 1 .. n |-> Line(k, Empty, TRUE)] ELSE <<>>]
                       /\ next = n + 1
  BY DEF LogInit
<1>2. n \in Nat /\ next \in Nat \ {0} /\ next = n + 1
  BY <1>1
<1> DEFINE old == [k \in 1 .. n |-> Line(k, Empty, TRUE)]
<1>3. \A k \in 1 .. n : Line(k, Empty, TRUE) \in Lines(next) /\ Line(k, Empty, TRUE).whole
                        /\ Line(k, Empty, TRUE).prev = Empty
  BY <1>2 DEF Lines, Line, Empty
<1>4. old \in Seq(Lines(next)) /\ DOMAIN old = 1 .. n
      /\ \A k \in DOMAIN old : old[k].whole /\ old[k].prev = Empty
  <2>1. \A k \in 1 .. n : old[k] = Line(k, Empty, TRUE)
    OBVIOUS
  <2>2. old \in Seq(Lines(next))
    <3>1. old \in [1 .. n -> Lines(next)]
      BY <1>3
    <3> HIDE DEF old
    <3> QED
      BY <1>2, <3>1, SeqDef
  <2> QED
    BY <1>3, <2>1, <2>2
<1>5. /\ files[0] = old /\ \A i \in Indices \ {0} : files[i] = <<>>
      /\ files \in Logs(next)
  <2>1. <<>> \in Seq(Lines(next))
    BY EmptySeq
  <2>2. \A i \in Indices : (IF i = 0 THEN old ELSE <<>>) \in Seq(Lines(next))
    BY <1>4, <2>1
  <2>3. files = [i \in Indices |-> IF i = 0 THEN old ELSE <<>>]
    BY <1>1
  <2> HIDE DEF old
  <2> QED
    BY <2>2, <2>3 DEF Logs
<1>6. \A i \in Indices : /\ \A k \in DOMAIN files[i] : files[i][k].whole /\ files[i][k].prev = Empty
                         /\ Intact(files[i], Empty)
  <2> HIDE DEF old
  <2>1. Intact(old, Empty)
    BY <1>4 DEF Intact
  <2>2. SUFFICES ASSUME NEW i \in Indices
                 PROVE  /\ \A k \in DOMAIN files[i] : files[i][k].whole /\ files[i][k].prev = Empty
                        /\ Intact(files[i], Empty)
    OBVIOUS
  <2>3. CASE i = 0
    BY <1>4, <1>5, <2>1, <2>3
  <2>4. CASE i # 0
    BY <1>5, <2>4, EmptyIntact
  <2> QED
    BY <2>3, <2>4
<1>7. last = Empty /\ step = "idle" /\ handle = FALSE /\ reader = "none" /\ verdict = "intact"
  BY DEF LogInit
<1>8. LogTyped
  <2>1. kept \in Indices /\ shifted = 0 /\ shifted \in 0 .. kept
    BY DEF LogInit, Indices
  <2>2. size \in Nat /\ todo \subseteq Indices /\ harm = {} /\ refused \subseteq Indices /\ moved \in BOOLEAN
    BY DEF LogInit
  <2>3. last \in Empty .. next - 1 /\ expected \in Empty .. next - 1
    BY <1>2 DEF LogInit, Empty
  <2> QED
    BY <1>2, <1>5, <1>7, <2>1, <2>2, <2>3 DEF LogTyped
<1>9. Unharmed
  BY <1>5, <1>6, <1>7 DEF Unharmed, Sound, Adjacent
<1> QED
  BY <1>6, <1>7, <1>8, <1>9 DEF LogInv, Untorn, Vacated, Following

-----------------------------------------------------------------------------
(* The step keeps the types.                                               *)

LEMMA UnderWay ==
  ASSUME LogTyped, step # "idle"
  PROVE  /\ chained.hash = next /\ chained.prev = last /\ chained.whole /\ last \in Genesis .. next - 1
         /\ chained \in Lines(next + 1) /\ [chained EXCEPT !.whole = FALSE] \in Lines(next + 1)
<1>1. chained = Line(next, last, TRUE) /\ last \in Empty .. next - 1 /\ last # Empty /\ next \in Nat \ {0}
  BY DEF LogTyped
<1>2. chained = [hash |-> next, prev |-> last, whole |-> TRUE] /\ last \in Genesis .. next - 1
  BY <1>1 DEF Line, Empty, Genesis
<1>3. next \in 1 .. (next + 1) - 1 /\ last \in Empty .. (next + 1) - 1
  BY <1>1 DEF Empty
<1>4. chained \in Lines(next + 1)
  BY <1>2, <1>3 DEF Lines
<1>5. [chained EXCEPT !.whole = FALSE] \in Lines(next + 1)
  BY <1>4 DEF Lines
<1> QED
  BY <1>2, <1>4, <1>5

LEMMA ContinuedType ==
  ASSUME LogTyped, NEW found
  PROVE  Continued(found) \in Genesis .. next - 1 /\ Continued(found) # Empty
<1>1. files[0] \in Seq(Lines(next)) /\ next \in Nat \ {0} /\ last \in Empty .. next - 1
  BY IndexRange DEF LogTyped, Logs
<1>2. LastLineHash(files[0]) \in Empty .. next - 1 /\ (LastLineHash(files[0]) = Empty <=> files[0] = <<>>)
  BY <1>1, LastOf
<1> QED
  BY <1>1, <1>2 DEF Continued, Genesis, Empty

(* Written line by line, the log stays a log. *)
LEMMA WrittenLogs ==
  ASSUME LogTyped, NEW l \in Lines(next + 1)
  PROVE  /\ [files EXCEPT ![0] = Appended(@, l)] \in Logs(next + 1)
         /\ [files EXCEPT ![0] = Appended(@, l)][0] = Appended(files[0], l)
         /\ \A i \in Indices \ {0} : [files EXCEPT ![0] = Appended(@, l)][i] = files[i]
         /\ files \in Logs(next + 1)
<1>1. files \in Logs(next) /\ next \in Nat \ {0}
  BY DEF LogTyped
<1>2. files \in Logs(next + 1)
  BY <1>1, LinesGrow DEF Logs
<1>3. Appended(files[0], l) \in Seq(Lines(next + 1))
  BY <1>1, <1>2, IndexRange, AppendedType DEF Logs
<1> QED
  BY <1>2, <1>3, IndexRange DEF Logs

LEMMA ActionCases ==
  [LogNext]_logVars =>
    \/ Begin \/ Close \/ Rotate \/ Reopen \/ Write \/ Restart \/ VerifyBegins \/ VerifyEnds
    \/ (\E i \in Indices : VerifyOpens(i)) \/ (\E i \in Indices : VerifyReads(i))
    \/ UNCHANGED logVars
BY DEF LogNext, WriteLine, VerifyLog

(* The file renamed next, and the two things that may become of it. *)
LEMMA RotateStep ==
  ASSUME LogTyped, Rotate, NEW s, s = Source(shifted)
  PROVE  /\ shifted \in 0 .. kept - 1 /\ kept \in Indices /\ s = kept - 1 - shifted
         /\ s \in 0 .. MaxRotated - 1 /\ s \in Indices /\ s + 1 \in Indices
         /\ \/ /\ files[s] # <<>> /\ refused' = refused
               /\ files' = [files EXCEPT ![s + 1] = files[s], ![s] = <<>>]
               /\ files[s + 1] # <<>> /\ harm' = {} => s + 1 \notin refused /\ ~Stale
            \/ /\ files' = files /\ harm' = harm
               /\ refused' = IF files[s] # <<>> THEN refused \cup {s} ELSE refused
<1>1. shifted \in 0 .. kept - 1 /\ kept \in 0 .. MaxRotated
  BY DEF Rotate, LogTyped, Indices
<1>2. /\ s = kept - 1 - shifted
      /\ s \in 0 .. MaxRotated - 1 /\ s \in Indices /\ s + 1 \in Indices
  BY <1>1 DEF Source, Indices
<1>3. CASE /\ files[s] # <<>> /\ refused' = refused
           /\ files' = [files EXCEPT ![s + 1] = files[s], ![s] = <<>>]
           /\ harm' = harm \cup (IF files[s + 1] = <<>> THEN {}
                                 ELSE IF s + 1 \in refused THEN {"overwritten"}
                                 ELSE IF Stale THEN {"stale"} ELSE {})
  BY <1>1, <1>2, <1>3 DEF Indices
<1>4. CASE /\ files' = files /\ harm' = harm
           /\ refused' = IF files[s] # <<>> THEN refused \cup {s} ELSE refused
  BY <1>1, <1>2, <1>4 DEF Indices
<1> QED
  BY <1>3, <1>4 DEF Rotate

LEMMA TypedStep ==
  ASSUME LogTyped, [LogNext]_logVars
  PROVE  LogTyped'
<1> USE IndexRange
<1>1. next \in Nat \ {0} /\ files \in Logs(next) /\ last \in Empty .. next - 1
  BY DEF LogTyped
<1>2. \A i \in Indices : files[i] \in Seq(Lines(next))
  BY <1>1 DEF Logs
<1>3. \A i \in Indices : Len(files[i]) \in Nat /\ LastLineHash(files[i]) \in Empty .. next - 1
  BY <1>1, <1>2, LastOf
<1>4. <<>> \in Seq(Lines(next))
  BY EmptySeq
<1>0. Empty \in Empty .. next - 1
  BY <1>1 DEF Empty
<1>5. CASE Begin
  <2>0. PICK found \in BOOLEAN : last' = Continued(found)
    BY <1>5 DEF Begin
  <2>1. last' \in Empty .. next - 1 /\ last' # Empty
    BY ContinuedType, <1>1, <2>0 DEF Genesis, Empty
  <2>2. /\ files' = files /\ next' = next /\ shifted' = shifted /\ kept' = kept
        /\ harm' \subseteq {"torn", "restarted", "unread", "overwritten", "stale"}
        /\ UNCHANGED <<reader, todo, expected, verdict, refused, moved>>
    BY <1>5 DEF Begin, LogTyped, disk, verify
  <2>3. handle' \in BOOLEAN /\ size' \in Nat
    BY <1>3, <1>5 DEF Begin, LogTyped
  <2>4. step' \in {"idle", "close", "write"}
    BY <1>5 DEF Begin
  <2>5. step' # "idle" => chained' = Line(next', last', TRUE) /\ last' # Empty
    BY <1>5, <2>1, <2>2 DEF Begin
  <2>6. kept' \in Indices /\ shifted' \in 0 .. kept'
    BY <2>2 DEF LogTyped
  <2>7. /\ reader' \in {"none", "looking", "reading"} /\ todo' \subseteq Indices
        /\ expected' \in Empty .. next' - 1 /\ verdict' \in {"intact", "broken"}
        /\ refused' \subseteq Indices /\ moved' \in BOOLEAN
    BY <2>2 DEF LogTyped
  <2>8. next' \in Nat \ {0} /\ files' \in Logs(next') /\ last' \in Empty .. next' - 1
    BY <1>1, <2>1, <2>2
  <2> QED
    BY <2>2, <2>3, <2>4, <2>5, <2>6, <2>7, <2>8 DEF LogTyped
<1>6. CASE Close
  <2>1. files' \in Logs(next)
    BY <1>1, <1>4, <1>6 DEF Close, Logs
  <2>2. kept \in Indices /\ 0 \in 0 .. kept /\ (step' = "move" => 0 < kept)
    BY <1>6 DEF Close, LogTyped, Indices
  <2>3. harm' \subseteq {"torn", "restarted", "unread", "overwritten", "stale"}
    BY <1>6 DEF Close, LogTyped
  <2>4. step' \in {"move", "reopen"} /\ step = "close" /\ handle' = FALSE /\ size' = 0 /\ shifted' = 0
        /\ refused' = {} /\ moved' \in BOOLEAN
        /\ UNCHANGED <<next, last, chained, kept, reader, todo, expected, verdict>>
    BY <1>6 DEF Close, LogTyped, verify
  <2> QED
    BY <2>1, <2>2, <2>3, <2>4 DEF LogTyped
<1>7. CASE Rotate
  <2> DEFINE s == Source(shifted)
  <2>1. /\ shifted \in 0 .. kept - 1 /\ kept \in Indices /\ s \in Indices /\ s + 1 \in Indices
        /\ files' = files \/ files' = [files EXCEPT ![s + 1] = files[s], ![s] = <<>>]
        /\ refused' \subseteq refused \cup {s}
    BY <1>7, RotateStep
  <2> HIDE DEF s
  <2>2. files' \in Logs(next)
    BY <1>1, <1>2, <1>4, <2>1 DEF Logs
  <2>3. /\ refused' \subseteq Indices /\ harm' \subseteq {"torn", "restarted", "unread", "overwritten", "stale"}
        /\ shifted' \in 0 .. kept /\ (step' = "move" => shifted' < kept)
        /\ step' \in {"move", "reopen"} /\ step = "move" /\ moved' \in BOOLEAN
    <3>1. shifted' = shifted + 1 /\ step' = IF shifted' = kept THEN "reopen" ELSE "move"
      BY <1>7 DEF Rotate
    <3>2. kept \in Nat
      BY <2>1
    <3>3. shifted' \in 0 .. kept /\ (step' = "move" => shifted' < kept)
      BY <2>1, <3>1, <3>2
    <3>4. refused' \subseteq Indices /\ step = "move" /\ moved' \in BOOLEAN
      BY <1>7, <2>1 DEF Rotate, LogTyped
    <3>5. harm' \subseteq {"torn", "restarted", "unread", "overwritten", "stale"}
      BY <1>7 DEF Rotate, LogTyped
    <3> QED
      BY <3>1, <3>3, <3>4, <3>5
  <2>4. UNCHANGED <<next, handle, size, last, chained, kept, reader, todo, expected, verdict>>
    BY <1>7 DEF Rotate, verify
  <2> QED
    BY <2>2, <2>3, <2>4 DEF LogTyped
<1>8. CASE Reopen
  BY <1>3, <1>8 DEF Reopen, LogTyped, disk, verify, past
<1>9. CASE Write
  <2>1. /\ chained \in Lines(next + 1) /\ [chained EXCEPT !.whole = FALSE] \in Lines(next + 1)
        /\ chained.hash = next
    BY <1>9, UnderWay DEF Write
  <2>2. files' \in Logs(next') /\ next' \in {next, next + 1} /\ last' \in {last, next} /\ size' \in {size, size + 1}
        /\ (last' = next => next' = next + 1)
    <3>1. CASE /\ files' = [files EXCEPT ![0] = Appended(@, chained)]
               /\ next' = next + 1 /\ size' = size + 1 /\ last' = chained.hash
      <4>1. files' \in Logs(next + 1)
        BY <2>1, <3>1, WrittenLogs
      <4> QED
        BY <2>1, <3>1, <4>1
    <3>2. CASE UNCHANGED <<disk, size, last, harm>>
      BY <1>1, <3>2 DEF disk, Empty
    <3>3. CASE /\ files' = [files EXCEPT ![0] = Appended(@, [chained EXCEPT !.whole = FALSE])]
               /\ next' = next + 1 /\ UNCHANGED <<size, last>>
      <4>1. files' \in Logs(next + 1)
        BY <2>1, <3>3, WrittenLogs
      <4> QED
        BY <1>1, <3>3, <4>1 DEF Empty
    <3> QED
      BY <1>9, <3>1, <3>2, <3>3 DEF Write
  <2>3. /\ next' \in Nat \ {0} /\ last' \in Empty .. next' - 1
        /\ size' \in Nat /\ expected \in Empty .. next' - 1
    <3>1. size \in Nat /\ expected \in Empty .. next - 1
      BY DEF LogTyped
    <3>2. CASE next' = next /\ last' = last
      BY <1>1, <2>2, <3>1, <3>2
    <3>3. CASE next' = next + 1
      BY <1>1, <2>2, <3>1, <3>3 DEF Empty
    <3> QED
      BY <2>2, <3>2, <3>3
  <2>4. harm' \subseteq {"torn", "restarted", "unread", "overwritten", "stale"} /\ step' = "idle"
        /\ UNCHANGED <<handle, shifted, kept, reader, todo, expected, verdict, refused, moved>>
    BY <1>9 DEF Write, LogTyped, verify
  <2> QED
    BY <2>2, <2>3, <2>4 DEF LogTyped
<1>10. CASE Restart
  <2>1. kept' \in Indices /\ shifted' = 0 /\ 0 \in 0 .. kept'
    BY <1>10 DEF Restart, Indices
  <2> QED
    BY <1>0, <1>1, <1>10, <2>1 DEF Restart, LogTyped, disk, verify, past
<1>11. CASE VerifyBegins
  BY <1>0, <1>1, <1>11 DEF VerifyBegins, LogTyped, disk, writer
<1>12. CASE VerifyEnds
  BY <1>0, <1>1, <1>12 DEF VerifyEnds, LogTyped, disk, writer
<1>13. ASSUME NEW i \in Indices, VerifyOpens(i)
       PROVE  LogTyped'
  BY <1>0, <1>1, <1>13 DEF VerifyOpens, LogTyped, disk, writer, past
<1>14. ASSUME NEW i \in Indices, VerifyReads(i)
       PROVE  LogTyped'
  BY <1>0, <1>3, <1>14 DEF VerifyReads, LogTyped, disk, writer, past
<1>15. CASE UNCHANGED logVars
  BY <1>15 DEF logVars, LogTyped, disk, writer, verify, past
<1> QED
  BY ActionCases, <1>5, <1>6, <1>7, <1>8, <1>9, <1>10, <1>11, <1>12, <1>13, <1>14, <1>15

-----------------------------------------------------------------------------
(* The step keeps the lines whole and the count right.                     *)

LEMMA UntornStep ==
  ASSUME LogTyped, Untorn, [LogNext]_logVars
  PROVE  Untorn'
<1> USE IndexRange
<1>1. next \in Nat \ {0} /\ files \in Logs(next)
  BY DEF LogTyped
<1>0. next + 1 \in Nat \ {0}
  BY <1>1
<1>2. DOMAIN <<>> = {}
  OBVIOUS
<1>3. CASE Begin
  <2>1. UNCHANGED files /\ ("torn" \in harm' <=> "torn" \in harm)
    BY <1>3 DEF Begin, disk
  <2>2. handle' => size' = IF handle THEN size ELSE Len(files[0])
    BY <1>3 DEF Begin
  <2> QED
    BY <2>1, <2>2 DEF Untorn
<1>4. CASE Close
  <2>1. \A i \in Indices : files'[i] \in {files[i], <<>>}
    BY <1>1, <1>4 DEF Close, Logs
  <2>2. ~handle' /\ ("torn" \in harm' <=> "torn" \in harm)
    BY <1>4 DEF Close
  <2> QED
    BY <1>2, <2>1, <2>2 DEF Untorn
<1>5. CASE Rotate
  <2> DEFINE s == Source(shifted)
  <2>1. /\ s \in Indices /\ s + 1 \in Indices
        /\ files' = files \/ files' = [files EXCEPT ![s + 1] = files[s], ![s] = <<>>]
    BY <1>5, RotateStep
  <2> HIDE DEF s
  <2>2. \A i \in Indices : files'[i] \in {files[i], <<>>, files[s]}
    BY <1>1, <2>1 DEF Logs
  <2>3. ~handle' /\ ("torn" \in harm' <=> "torn" \in harm)
    BY <1>5 DEF Rotate, LogTyped
  <2> QED
    BY <1>2, <2>1, <2>2, <2>3 DEF Untorn
<1>6. CASE Reopen
  BY <1>6 DEF Reopen, Untorn, disk, past
<1>7. CASE Write
  <2> SUFFICES ASSUME "torn" \notin harm'
               PROVE  /\ \A i \in Indices : \A k \in DOMAIN files'[i] : files'[i][k].whole
                      /\ handle' => size' = Len(files'[0])
    BY DEF Untorn
  <2>1. "torn" \notin harm /\ handle' = handle
    BY <1>7 DEF Write
  <2>2. CASE UNCHANGED <<disk, size, last, harm>>
    BY <2>1, <2>2 DEF disk, Untorn
  <2>3. CASE files' = [files EXCEPT ![0] = Appended(@, chained)] /\ size' = size + 1
    <3>1. chained \in Lines(next + 1) /\ chained.whole
      BY <1>7, UnderWay DEF Write
    <3>2. /\ files'[0] = Appended(files[0], chained) /\ \A i \in Indices \ {0} : files'[i] = files[i]
          /\ files[0] \in Seq(Lines(next + 1))
      BY <2>3, <3>1, WrittenLogs DEF Logs
    <3>3. files[0] = <<>> \/ files[0][Len(files[0])].whole
      <4>1. files[0] # <<>> => Len(files[0]) \in DOMAIN files[0]
        BY <1>1, <3>2, LastOf
      <4> QED
        BY <2>1, <4>1 DEF Untorn
    <3>4. files'[0] = Append(files[0], chained)
      BY <3>1, <3>2, <3>3, <1>0, AppendedType
    <3>5. /\ Len(files'[0]) = Len(files[0]) + 1 /\ DOMAIN files'[0] = 1 .. Len(files[0]) + 1
          /\ \A k \in 1 .. Len(files[0]) : files'[0][k] = files[0][k]
          /\ files'[0][Len(files[0]) + 1] = chained
          /\ Len(files[0]) \in Nat /\ DOMAIN files[0] = 1 .. Len(files[0])
      BY <3>1, <3>2, <3>4, AppendProperties, LenProperties
    <3>6. \A k \in DOMAIN files'[0] : files'[0][k].whole
      <4> SUFFICES ASSUME NEW k \in 1 .. Len(files[0]) + 1 PROVE files'[0][k].whole
        BY <3>5
      <4>1. k = Len(files[0]) + 1 \/ k \in 1 .. Len(files[0])
        BY <3>5
      <4> QED
        BY <2>1, <3>1, <3>5, <4>1 DEF Untorn
    <3> QED
      BY <2>1, <2>3, <3>2, <3>5, <3>6 DEF Untorn
  <2> QED
    BY <1>7, <2>2, <2>3 DEF Write
<1>8. CASE Restart
  BY <1>8 DEF Restart, Untorn, disk, past
<1>9. CASE VerifyBegins
  BY <1>9 DEF VerifyBegins, Untorn, disk, writer
<1>10. CASE VerifyEnds
  BY <1>10 DEF VerifyEnds, Untorn, disk, writer
<1>11. ASSUME NEW i \in Indices, VerifyOpens(i)
       PROVE  Untorn'
  BY <1>11 DEF VerifyOpens, Untorn, disk, writer, past
<1>12. ASSUME NEW i \in Indices, VerifyReads(i)
       PROVE  Untorn'
  BY <1>12 DEF VerifyReads, Untorn, disk, writer, past
<1>13. CASE UNCHANGED logVars
  BY <1>13 DEF logVars, Untorn, disk, writer, past
<1> QED
  BY ActionCases, <1>3, <1>4, <1>5, <1>6, <1>7, <1>8, <1>9, <1>10, <1>11, <1>12, <1>13

-----------------------------------------------------------------------------
(* An unharmed log is sound, and a file is moved over another one only if  *)
(* that is the oldest or could not be renamed.                             *)

LEMMA VacatedStep ==
  ASSUME LogTyped, Vacated, [LogNext]_logVars
  PROVE  Vacated'
<1>1. CASE Close
  BY <1>1 DEF Close, Vacated
<1>2. CASE Rotate
  <2> DEFINE s == Source(shifted)
  <2>1. /\ shifted \in 0 .. kept - 1 /\ kept \in Indices /\ s = kept - 1 - shifted
        /\ s \in Indices /\ s + 1 \in Indices /\ s \in Nat
        /\ \/ files' = [files EXCEPT ![s + 1] = files[s], ![s] = <<>>]
           \/ files' = files /\ (files[s] # <<>> => s \in refused')
    BY <1>2, RotateStep
  <2> HIDE DEF s
  <2>2. kept' = kept /\ shifted' = shifted + 1 /\ kept \in Nat /\ shifted \in Nat
    BY <1>2, <2>1, IndexRange DEF Rotate
  <2>4. kept' - shifted' = s
    BY <2>1, <2>2
  <2>3. files'[s] = <<>> \/ s \in refused'
    BY <2>1 DEF LogTyped, Logs
  <2> QED
    BY <2>3, <2>4 DEF Vacated
<1>3. CASE Begin \/ Reopen \/ Write \/ Restart
  <2>1. step' # "move"
    BY <1>3 DEF Begin, Reopen, Write, Restart
  <2> QED
    BY <2>1 DEF Vacated
<1>4. CASE VerifyBegins \/ VerifyEnds
  BY <1>4 DEF VerifyBegins, VerifyEnds, Vacated, disk, writer
<1>5. ASSUME NEW i \in Indices, VerifyOpens(i) \/ VerifyReads(i)
      PROVE  Vacated'
  BY <1>5 DEF VerifyOpens, VerifyReads, Vacated, disk, writer, past
<1>6. CASE UNCHANGED logVars
  BY <1>6 DEF logVars, Vacated, disk, writer, past
<1> QED
  BY ActionCases, <1>1, <1>2, <1>3, <1>4, <1>5, <1>6

LEMMA UnharmedStep ==
  ASSUME LogTyped, Untorn, Unharmed, Vacated, [LogNext]_logVars
  PROVE  Unharmed'
<1> SUFFICES ASSUME harm' = {} PROVE Sound(files', last')
  BY DEF Unharmed
<1> USE IndexRange
<1>1. /\ next \in Nat \ {0} /\ files \in Logs(next) /\ last \in Int
      /\ last \in Empty .. next - 1
  BY DEF LogTyped, Empty
<1>2. harm = {}
  BY ActionCases
     DEF Begin, Close, Rotate, Reopen, Write, Restart, VerifyBegins, VerifyEnds, VerifyOpens, VerifyReads,
         past, logVars
<1>3. Sound(files, last)
  BY <1>2 DEF Unharmed
<1>4. CASE Begin
  <2>1. PICK found \in BOOLEAN :
          /\ last' = Continued(found)
          /\ last = Empty => IF files[0] # <<>> THEN found ELSE \A i \in Indices : files[i] = <<>>
    BY <1>4 DEF Begin
  <2>2. Sound(files, Continued(found))
    BY <1>1, <1>3, <2>1, ContinuedSound
  <2> QED
    BY <1>4, <2>1, <2>2 DEF Begin, disk
<1>5. CASE Close
  <2>1. \/ files' = files
        \/ files' = [files EXCEPT ![kept] = <<>>] /\ (files[kept] # <<>> => ~Stale)
    BY <1>5 DEF Close
  <2>2. last' = last /\ kept \in Indices
    BY <1>5 DEF Close, LogTyped
  <2> QED
    BY <1>1, <1>3, <2>1, <2>2, DropSound DEF Stale
<1>6. CASE Rotate
  <2> DEFINE s == Source(shifted)
  <2>1. /\ shifted \in 0 .. kept - 1 /\ kept \in Indices /\ s = kept - 1 - shifted
        /\ s \in 0 .. MaxRotated - 1
        /\ \/ /\ files[s] # <<>> /\ files' = [files EXCEPT ![s + 1] = files[s], ![s] = <<>>]
              /\ files[s + 1] # <<>> => s + 1 \notin refused /\ ~Stale
           \/ files' = files
    BY <1>6, RotateStep
  <2> HIDE DEF s
  <2>2. last' = last /\ step = "move"
    BY <1>6 DEF Rotate
  <2>3. CASE /\ files[s] # <<>> /\ files' = [files EXCEPT ![s + 1] = files[s], ![s] = <<>>]
             /\ files[s + 1] # <<>> => s + 1 \notin refused /\ ~Stale
    <3>1. kept \in Nat /\ s + 1 = kept - shifted
      BY <2>1
    <3>2. files[s + 1] # <<>> => s + 1 = kept
      BY <2>1, <2>2, <2>3, <3>1 DEF Vacated
    <3>3. files[s + 1] # <<>> => \A i \in Indices : s + 1 < i => files[i] = <<>>
      BY <2>3, <3>2 DEF Stale
    <3> QED
      BY <1>1, <1>3, <2>1, <2>2, <2>3, <3>3, MoveSound
  <2>4. CASE files' = files
    BY <1>3, <2>2, <2>4
  <2> QED
    BY <2>1, <2>3, <2>4
<1>7. CASE Reopen
  BY <1>3, <1>7 DEF Reopen, disk
<1>8. CASE Write
  <2>1. CASE UNCHANGED <<disk, size, last, harm>>
    BY <1>3, <2>1 DEF disk
  <2>2. CASE files' = [files EXCEPT ![0] = Appended(@, chained)] /\ last' = chained.hash
    <3>1. chained \in Lines(next + 1) /\ chained.whole /\ chained.prev = last /\ last # Empty
      BY <1>1, <1>8, UnderWay DEF Write, Genesis, Empty
    <3>2. files \in Logs(next + 1) /\ files[0] \in Seq(Lines(next + 1)) /\ next + 1 \in Nat \ {0}
      BY <1>1, <3>1, WrittenLogs DEF Logs
    <3>3. files[0] = <<>> \/ files[0][Len(files[0])].whole
      <4>1. files[0] # <<>> => Len(files[0]) \in DOMAIN files[0]
        BY <3>2, LastOf
      <4> QED
        BY <1>2, <4>1 DEF Untorn
    <3>4. Appended(files[0], chained) = Append(files[0], chained)
      BY <3>1, <3>2, <3>3, AppendedType
    <3>5. files' = [files EXCEPT ![0] = Append(files[0], chained)]
      BY <2>2, <3>4
    <3>6. Sound([files EXCEPT ![0] = Append(files[0], chained)], chained.hash)
      BY <1>1, <1>3, <3>1, <3>2, WriteSound
    <3> QED
      BY <2>2, <3>5, <3>6
  <2> QED
    BY <1>8, <2>1, <2>2 DEF Write
<1>9. CASE Restart
  BY <1>3, <1>9 DEF Restart, disk, Sound
<1>10. CASE VerifyBegins \/ VerifyEnds \/ UNCHANGED logVars
  BY <1>3, <1>10 DEF VerifyBegins, VerifyEnds, logVars, disk, writer
<1>11. ASSUME NEW i \in Indices, VerifyOpens(i) \/ VerifyReads(i)
       PROVE  Sound(files', last')
  BY <1>3, <1>11 DEF VerifyOpens, VerifyReads, disk, writer
<1> QED
  BY ActionCases, <1>4, <1>5, <1>6, <1>7, <1>8, <1>9, <1>10, <1>11

(* A file that continues another one is intact behind it. *)
LEMMA IntactBehind ==
  ASSUME NEW f, NEW want, Intact(f, Empty), want = Empty \/ f[1].prev \in {Empty, want},
         DOMAIN f \subseteq Nat \ {0}
  PROVE  Intact(f, want)
<1>1. ASSUME NEW k \in DOMAIN f, f[k].prev # Empty
      PROVE  IF k > 1 THEN f[k].prev = f[k - 1].hash ELSE want \in {Empty, f[k].prev}
  <2>1. CASE k > 1
    BY <1>1, <2>1 DEF Intact
  <2>2. CASE ~(k > 1)
    <3>1. k = 1
      BY <2>2
    <3> QED
      BY <1>1, <3>1
  <2> QED
    BY <2>1, <2>2
<1> QED
  BY <1>1 DEF Intact

-----------------------------------------------------------------------------
(* verify-log follows the files that are there.                            *)

LEMMA FollowingStep ==
  ASSUME LogTyped, Unharmed, Following, [LogNext]_logVars
  PROVE  Following'
<1> USE IndexRange
<1>1. /\ next \in Nat \ {0} /\ files \in Logs(next)
      /\ \A i \in Indices : files[i] \in Seq(Lines(next))
  BY DEF LogTyped, Logs
<1>2. CASE Begin
  <2>1. step' # "move" \/ step' = step
    BY <1>2 DEF Begin
  <2>2. harm' = {} => harm = {}
    BY <1>2 DEF Begin
  <2>3. UNCHANGED <<files, reader, todo, expected, verdict, moved>>
    BY <1>2 DEF Begin, disk, verify
  <2> QED
    BY <2>1, <2>2, <2>3 DEF Following, Expecting
<1>3. CASE Close \/ Rotate
  <2>1. UNCHANGED <<reader, verdict>> /\ (moved' \/ reader = "none")
    BY <1>3 DEF Close, Rotate, verify, Following
  <2> QED
    BY <2>1 DEF Following
<1>4. CASE Reopen \/ Restart
  <2>1. step' # "move" /\ UNCHANGED <<files, reader, todo, expected, verdict, harm, moved>>
    BY <1>4 DEF Reopen, Restart, disk, verify, past
  <2> QED
    BY <2>1 DEF Following, Expecting
<1>5. CASE Write
  <2>1. /\ step' # "move" /\ UNCHANGED <<reader, todo, expected, verdict, moved>>
        /\ harm' = {} => harm = {}
    BY <1>5 DEF Write, verify
  <2>2. \A i \in Indices \ {0} : files'[i] = files[i]
    BY <1>1, <1>5 DEF Write, disk, Logs
  <2>3. files[0] # <<>> => files'[0] # <<>>
    <3>1. chained \in Lines(next + 1) /\ [chained EXCEPT !.whole = FALSE] \in Lines(next + 1)
      BY <1>5, UnderWay DEF Write
    <3>2. /\ files[0] \in Seq(Lines(next + 1)) /\ next + 1 \in Nat \ {0}
      BY <1>1, <3>1, WrittenLogs DEF Logs
    <3>3. \A l \in Lines(next + 1) : Appended(files[0], l) # <<>>
      BY <3>2, AppendedType
    <3>4. files'[0] \in {files[0], Appended(files[0], chained), Appended(files[0], [chained EXCEPT !.whole = FALSE])}
      BY <1>1, <1>5 DEF Write, disk, Logs
    <3> QED
      BY <3>1, <3>3, <3>4
  <2>4. Expecting => Expecting'
    BY <2>1, <2>2 DEF Expecting
  <2>5. todo \subseteq Indices /\ ((\A i \in todo : files[i] # <<>>) => \A i \in todo : files'[i] # <<>>)
    BY <2>2, <2>3 DEF LogTyped
  <2> QED
    BY <2>1, <2>2, <2>4, <2>5 DEF Following
<1>6. CASE VerifyBegins
  <2>1. /\ todo' = {i \in Indices : files[i] # <<>>} /\ expected' = Empty /\ verdict' = "intact"
        /\ moved' = (step = "move") /\ reader' = "looking"
        /\ UNCHANGED <<files, step>>
    BY <1>6 DEF VerifyBegins, disk, writer
  <2> QED
    BY <2>1 DEF Following, Expecting
<1>7. CASE VerifyEnds
  BY <1>7 DEF VerifyEnds, Following
<1>8. ASSUME NEW i \in Indices, VerifyOpens(i)
      PROVE  Following'
  <2>1. /\ i \in todo /\ reader = "looking" /\ reader' \in {"looking", "reading"}
        /\ UNCHANGED <<files, step, verdict, harm, moved>>
    BY <1>8 DEF VerifyOpens, NextToRead, disk, writer, past
  <2>2. CASE UNCHANGED <<todo, expected>>
    BY <2>1, <2>2 DEF Following, Expecting
  <2>3. CASE todo' = todo \ {i} /\ expected' = Empty
    <3>1. (\A k \in todo : k <= i) /\ todo \subseteq Indices
      BY <1>8 DEF VerifyOpens, NextToRead, LogTyped
    <3>2. \A k \in todo', j \in Indices : j < k => j # i
      BY <2>3, <3>1
    <3> QED
      BY <2>1, <2>3, <3>2 DEF Following, Expecting
  <2> QED
    BY <1>8, <2>2, <2>3 DEF VerifyOpens
<1>9. ASSUME NEW i \in Indices, VerifyReads(i)
      PROVE  Following'
  <2>1. /\ i \in todo /\ (\A k \in todo : k <= i) /\ reader = "reading" /\ reader' = "looking"
        /\ todo' = todo \ {i} /\ expected' \in {LastLineHash(files[i]), Empty}
        /\ verdict' = IF Intact(files[i], expected) THEN verdict ELSE "broken"
        /\ UNCHANGED <<files, step, harm, moved>>
    BY <1>9 DEF VerifyReads, InUse, NextToRead, disk, writer, past
  <2> SUFFICES ASSUME harm = {}, ~moved
               PROVE  /\ step # "move" /\ verdict' = "intact"
                      /\ \A k \in todo' : files[k] # <<>>
                      /\ \A k \in todo', j \in Indices \ {0} : j < k /\ files[j] # <<>> => j \in todo'
                      /\ Expecting'
    BY <2>1 DEF Following
  <2>2. /\ step # "move" /\ verdict = "intact" /\ Expecting
        /\ \A k \in todo : files[k] # <<>>
        /\ \A k \in todo, j \in Indices \ {0} : j < k /\ files[j] # <<>> => j \in todo
    BY <2>1 DEF Following
  <2>3. todo \subseteq Indices /\ Sound(files, last)
    BY DEF LogTyped, Unharmed
  <2>4. verdict' = "intact"
    <3>1. CASE expected = Empty
      BY <2>1, <2>2, <2>3, <3>1 DEF Sound
    <3>2. CASE expected # Empty
      <4>1. PICK m \in Indices \ {0} :
              /\ files[m] # <<>> /\ expected = LastLineHash(files[m])
              /\ \A k \in todo : k < m
              /\ \A j \in Indices \ {0} : j < m /\ files[j] # <<>> => j \in todo
        BY <2>1, <2>2, <3>2 DEF Expecting
      <4>2. \A j \in Indices : i < j /\ j < m => files[j] = <<>>
        BY <2>1, <4>1
      <4>3. Adjacent(files, i, m)
        BY <2>1, <2>2, <4>1, <4>2 DEF Adjacent
      <4>4. Intact(files[i], Empty) /\ files[i][1].prev \in {Empty, expected}
        BY <2>3, <4>1, <4>3 DEF Sound
      <4>5. DOMAIN files[i] \subseteq Nat \ {0}
        BY <1>1, LenProperties
      <4>6. Intact(files[i], expected)
        BY <4>4, <4>5, IntactBehind
      <4> QED
        BY <2>1, <2>2, <4>6
    <3> QED
      BY <3>1, <3>2
  <2>5. \A k \in todo' : k < i /\ k \in todo
    BY <2>1, <2>3
  <2>6. ASSUME NEW k \in todo', NEW j \in Indices \ {0}, j < k, files[j] # <<>>
        PROVE  j \in todo'
    <3>1. j \in todo
      BY <2>2, <2>5, <2>6
    <3>2. k < i /\ k \in Nat /\ j \in Nat
      BY <2>3, <2>5, <2>6
    <3>3. j # i
      BY <2>6, <3>2
    <3> QED
      BY <2>1, <3>1, <3>3
  <2>7. Expecting'
    <3> SUFFICES ASSUME expected' # Empty, NEW k \in todo'
                 PROVE  \E m \in Indices \ {0} :
                          /\ files[m] # <<>> /\ expected' = LastLineHash(files[m])
                          /\ \A q \in todo' : q < m
                          /\ \A j \in Indices \ {0} : j < m /\ files[j] # <<>> => j \in todo'
      BY <2>1 DEF Expecting
    <3>1. i # 0 /\ files[i] # <<>>
      <4>1. k < i /\ k \in Nat
        BY <2>3, <2>5
      <4> QED
        BY <2>1, <2>2, <4>1
    <3>2. ASSUME NEW j \in Indices \ {0}, j < i, files[j] # <<>>
          PROVE  j \in todo'
      BY <2>1, <2>2, <3>2
    <3> QED
      BY <2>1, <2>5, <3>1, <3>2
  <2> QED
    BY <2>2, <2>4, <2>5, <2>6, <2>7
<1>10. CASE UNCHANGED logVars
  BY <1>10 DEF logVars, disk, writer, verify, past, Following, Expecting
<1> QED
  BY ActionCases, <1>2, <1>3, <1>4, <1>5, <1>6, <1>7, <1>8, <1>9, <1>10

-----------------------------------------------------------------------------
(* What the invariant means.                                               *)

(* The next file with lines behind file i. *)
LEMMA NearestOlder ==
  ASSUME NEW i \in Indices, Older(i) # {}
  PROVE  LET j == CHOOSE j \in Older(i) : \A k \in Older(i) : j <= k
         IN  j \in Indices /\ (files[i] # <<>> => Adjacent(files, i, j))
<1>1. Older(i) \subseteq Nat /\ Older(i) \subseteq Indices
  BY DEF Older, Indices
<1>2. PICK m \in Older(i) : \A k \in Older(i) : ~(<<k, m>> \in OpToRel(<, Nat))
  BY <1>1, NatLessThanWellFounded, WFMin
<1>3. \A k \in Older(i) : m <= k
  <2> SUFFICES ASSUME NEW k \in Older(i), k < m PROVE FALSE
    BY <1>1
  <2>1. <<k, m>> \in Nat \X Nat
    BY <1>1
  <2>2. <<k, m>> \in OpToRel(<, Nat)
    BY <2>1 DEF OpToRel
  <2> QED
    BY <1>2, <2>2
<1> DEFINE j == CHOOSE j \in Older(i) : \A k \in Older(i) : j <= k
<1>4. j \in Older(i) /\ \A k \in Older(i) : j <= k
  BY <1>3
<1> HIDE DEF j
<1>5. j \in Indices /\ i < j /\ files[j] # <<>>
  BY <1>4 DEF Older
<1>6. \A k \in Indices : i < k /\ k < j => files[k] = <<>>
  <2> SUFFICES ASSUME NEW k \in Indices, i < k, k < j, files[k] # <<>> PROVE FALSE
    OBVIOUS
  <2>1. k \in Older(i)
    BY DEF Older, Indices
  <2> QED
    BY <1>4, <1>5, <2>1, IndexRange
<1> QED
  BY <1>5, <1>6 DEF Adjacent, j

LEMMA SoundIsIntact ==
  ASSUME LogTyped, Sound(files, last)
  PROVE  AllIntact
<1> SUFFICES ASSUME NEW i \in Indices, Older(i) # {}
             PROVE  Intact(files[i], LastLineHash(files[CHOOSE j \in Older(i) : \A k \in Older(i) : j <= k]))
  BY DEF AllIntact, Sound
<1> DEFINE j == CHOOSE j \in Older(i) : \A k \in Older(i) : j <= k
<1>1. j \in Indices /\ (files[i] # <<>> => Adjacent(files, i, j))
  BY NearestOlder
<1> HIDE DEF j
<1>2. Intact(files[i], Empty) /\ DOMAIN files[i] \subseteq Nat \ {0}
  BY LenProperties DEF Sound, LogTyped, Logs
<1>3. Intact(files[i], LastLineHash(files[j]))
  <2>1. CASE files[i] = <<>>
    BY <2>1, EmptyIntact
  <2>2. CASE files[i] # <<>>
    <3>1. files[i][1].prev \in {Empty, LastLineHash(files[j])}
      BY <1>1, <2>2 DEF Sound
    <3> QED
      BY <1>2, <3>1, IntactBehind
  <2> QED
    BY <2>1, <2>2
<1> QED
  BY <1>3 DEF j

LEMMA LogInvMeans == LogInv => LogTypeOK /\ ChainContinues /\ NoFalseAlarm
<1> SUFFICES ASSUME LogInv PROVE LogTypeOK /\ ChainContinues /\ NoFalseAlarm
  OBVIOUS
<1> USE DEF LogInv
<1>1. \A i \in Indices : \A k \in DOMAIN files[i] :
        files[i][k].hash \in 1 .. next - 1 /\ files[i][k].prev \in Empty .. next - 1
  <2> SUFFICES ASSUME NEW i \in Indices, NEW k \in DOMAIN files[i]
               PROVE  files[i][k].hash \in 1 .. next - 1 /\ files[i][k].prev \in Empty .. next - 1
    OBVIOUS
  <2>1. files[i] \in Seq(Lines(next))
    BY DEF LogTyped, Logs
  <2>2. files[i][k] \in Lines(next)
    BY <2>1, LenProperties
  <2> QED
    BY <2>2 DEF Lines
<1>2. LogTypeOK
  BY <1>1 DEF LogTypeOK, LogTyped, Untorn
<1>3. ChainContinues
  BY SoundIsIntact DEF ChainContinues, Unharmed
<1>4. NoFalseAlarm
  BY DEF NoFalseAlarm, Following
<1> QED
  BY <1>2, <1>3, <1>4

(* The invariant holds from the start and every step keeps it. *)
THEOREM LogInvariant == LogSpec => []LogInv
<1>1. LogInv /\ [LogNext]_logVars => LogInv'
  BY TypedStep, UntornStep, UnharmedStep, VacatedStep, FollowingStep DEF LogInv
<1> QED
  BY InitLogInv, <1>1, PTL DEF LogSpec

(* Every variable stays in its range, and the logger knows the size of the *)
(* open file unless a line was cut short.                                  *)
THEOREM LogTypeCorrect == LogSpec => []LogTypeOK
BY LogInvariant, LogInvMeans, PTL

(* Over any number of rotations, restarts, reloads and failed or refused   *)
(* calls the chain holds through all files, unless a line was cut short, a *)
(* start could not read the log or found it empty, a rename overwrote a    *)
(* file that had failed to move, or fewer rotated files were kept than     *)
(* there were (JsonLinesLogger.cpp:136-199, Daemon.cpp:194-198).           *)
THEOREM ChainAlwaysContinues == LogSpec => []ChainContinues
BY LogInvariant, LogInvMeans, PTL

(* A break that verify-log reports is there, or files were renamed while   *)
(* it ran.                                                                 *)
THEOREM VerifyTellsTheTruth == LogSpec => []NoFalseAlarm
BY LogInvariant, LogInvMeans, PTL
=============================================================================
