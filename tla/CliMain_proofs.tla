---------------------------- MODULE CliMain_proofs ----------------------------
(***************************************************************************)
(* The invariants of CliMain, for every MaxPollCycles. None of them is     *)
(* inductive: they follow from IInv, which says where main() can be while  *)
(* each of its calls runs, what exists of the two handles there, and that  *)
(* a polling thread that is alive has both handles ready and main()        *)
(* between starting it and joining it.                                     *)
(***************************************************************************)
EXTENDS CliMain, TLAPS

mainStep == step["main"]
pollStep == step["poll"]

PollAlive == pollStep \notin {"none", "done"}

Ready ==
    /\ calcPtr /\ calcMem = "live" /\ attached /\ opened
    /\ cablePtr /\ cableMem = "live" /\ cableOpen /\ device = "claimed"

\* The labels main() can be at during each of its calls.
PlaceInv ==
    /\ at \in {"start", "menu", "exited"} => mainStep = "out"
    /\ at = "opening" => mainStep \in {"out"} \cup OpenSteps \cup CleanupSteps
    /\ at = "starting" => mainStep \in {"out", "create"}
    /\ at \in {"pinging", "transfer"} => mainStep \in {"out"} \cup LibrarySteps
    /\ at \in {"stopBeforeMenu", "stopping"} => mainStep \in {"out"} \cup StopSteps
    /\ at = "cleaning" => mainStep \in {"out"} \cup CleanupSteps

\* The two handles: pointer and memory agree except between the free and the
\* assignment of NULL; only an attached handle has the cable open, and the
\* cable is open while the device is claimed.
HandleInv ==
    /\ calcMem = "live" <=> calcPtr /\ mainStep # "nullCalc"
    /\ cableMem = "live" <=> cablePtr
    /\ attached => calcMem = "live" /\ cableMem = "live"
    /\ opened <=> cableOpen
    /\ cableOpen <=> device = "claimed"
    /\ opened => attached
    /\ mainStep \in {"delCable", "clear"} => calcMem # "live"
    /\ mainStep = "clear" => cableMem # "live"

\* How far calc_session_open has come.
OpenInv ==
    /\ at = "start" => calcMem = "none" /\ cableMem = "none"
    /\ mainStep \in {"detect", "newCable", "newCalc"} => calcMem = "none"
    /\ mainStep \in {"detect", "newCable"} => cableMem = "none"
    /\ mainStep \in {"newCalc", "attach"} => cableMem = "live"
    /\ mainStep = "attach" => calcMem = "live" /\ ~attached
    /\ at = "opening" /\ mainStep \in CleanupSteps => result["main"] # "OK"

ReadyInv ==
    /\ at \in {"starting", "pinging", "stopBeforeMenu", "menu", "transfer"} => Ready
    /\ at = "opening" /\ mainStep = "out" /\ result["main"] = "OK" => Ready
    /\ PollAlive => Ready

\* The polling thread lives between calc_session_start_polling and the join.
PollInv ==
    /\ PollAlive => /\ pollThreadStarted
                    /\ at \in {"starting", "pinging", "stopBeforeMenu", "stopping"}
    /\ pollThreadStarted => pollStep # "none"
    /\ at \in {"start", "opening"} => pollStep = "none"
    /\ mainStep = "create" => pollStep = "none"
    /\ at = "starting" /\ mainStep = "out" /\ result["main"] = "OK" => pollThreadStarted
    /\ at = "pinging" => pollThreadStarted
    /\ at = "stopBeforeMenu" /\ mainStep \in StopSteps => pollThreadStarted
    /\ at = "stopBeforeMenu" /\ mainStep = "out" => pollStep = "done"
    /\ at \in {"menu", "transfer"} => pollStep = "done"
    /\ at = "stopping" /\ mainStep = "out" => ~PollAlive
    /\ mainStep = "join" => ~pollActive

BusyInv == busy => \E t \in Threads : step[t] \in {"run", "release"}

\* main() alone in the menu gets an answer of the calculator.
TransferInv ==
    at = "transfer" /\ mainStep \in {"release", "out"} => result["main"] # "ERR_BUSY"

EndInv ==
    at = "exited" \/ (at = "cleaning" /\ mainStep = "out") =>
        calcMem # "live" /\ cableMem # "live"

CycleInv == pollStep \in {"ping", "sleep"} \cup LibrarySteps => cycle < MaxPollCycles

\* A device that could not be claimed is one of a calc_session_open that failed,
\* whose status main() keeps.
LeakInv ==
    device = "unclaimed" =>
        \/ /\ at = "opening" /\ mainStep \in {"out"} \cup CleanupSteps
           /\ result["main"] \in {"NO_CALC", "NO_CABLE"}
        \/ at \in {"stopping", "cleaning", "exited"} /\ err \in {"NO_CALC", "NO_CABLE"}

\* Before the ping, result["main"] is a status of calc_session.c.
StatusInv ==
    at \in {"start", "opening", "starting"} => result["main"] \in {"OK"} \cup AppErrors

IInv ==
    /\ MainTypeOK /\ PlaceInv /\ HandleInv /\ OpenInv /\ ReadyInv
    /\ PollInv /\ BusyInv /\ TransferInv /\ EndInv /\ CycleInv
    /\ LeakInv /\ StatusInv

-----------------------------------------------------------------------------
(* Types. Labels stay folded: only the set a label belongs to is opened. *)

LEMMA GotoLabel ==
  ASSUME StepTypeOK, NEW t \in Threads, NEW label, Goto(t, label),
         t = "main" => label \in MainLabels,
         t = "poll" => label \in PollLabels
  PROVE  StepTypeOK'
  BY DEF StepTypeOK, Goto, Threads

LEMMA ReturnResult ==
  ASSUME result \in [Threads -> Results],
         NEW t \in Threads, NEW status \in Results, Return(t, status)
  PROVE  result' \in [Threads -> Results]
  BY DEF Return

LEMMA ZeroCycles == 0 \in 0..MaxPollCycles
  BY PollCyclesAssumption

LEMMA InitTypeOK == Init => MainTypeOK
  <1> SUFFICES ASSUME Init PROVE MainTypeOK
    OBVIOUS
  <1> USE DEF Init, SessionInit
  <1>1. calcMem \in Memory /\ cableMem \in Memory
    BY DEF Memory
  <1>2. cycle \in 0..MaxPollCycles /\ device \in DeviceStates
    BY ZeroCycles DEF DeviceStates
  <1>3. FlagsTypeOK
    BY <1>1, <1>2, Zenon DEF FlagsTypeOK
  <1>4. step["main"] \in MainLabels /\ step["poll"] \in PollLabels
    BY DEF Threads, MainLabels, PollLabels, PollSteps
  <1>5. StepTypeOK
    BY <1>4 DEF StepTypeOK, Threads
  <1>6. result \in [Threads -> Results]
    BY DEF Results
  <1>7. at \in MainAt /\ err \in ExitStatus
    BY DEF MainAt, ExitStatus
  <1> QED
    BY <1>3, <1>5, <1>6, <1>7, Zenon DEF MainTypeOK, TypeOK

\* A library call changes no flag but `busy'.
LEMMA LibraryFlags ==
  ASSUME NEW t \in Threads, Library(t)
  PROVE  /\ UNCHANGED <<calcPtr, calcMem, attached, opened, cableVars, pollVars>>
         /\ busy' \in {busy, TRUE, FALSE}
  <1> USE DEF calcVars
  <1>1. CASE LibCheck(t)
    BY <1>1, Zenon DEF LibCheck
  <1>2. CASE LibTake(t)
    BY <1>2, Zenon DEF LibTake
  <1>3. CASE LibRun(t)
    BY <1>3, Zenon DEF LibRun
  <1>4. CASE LibRelease(t)
    BY <1>4, Zenon DEF LibRelease
  <1> QED
    BY <1>1, <1>2, <1>3, <1>4 DEF Library

LEMMA FlagsTypeNext == FlagsTypeOK /\ CycleInv /\ [Next]_vars => FlagsTypeOK'
  <1> SUFFICES ASSUME FlagsTypeOK, CycleInv, [Next]_vars PROVE FlagsTypeOK'
    OBVIOUS
  <1> USE DEF FlagsTypeOK, Memory, DeviceStates, OpenFails, calcVars, cableVars, pollVars, sessionVars, vars
  <1>1. CASE MainCode
    BY <1>1 DEF MainCode, CallOpen, CallStartPolling, Continue, CallIsReady, AfterIsReady,
       EnterMenu, CallCleanup, Exit
  <1>2. CASE User
    BY <1>2 DEF User, MenuTransfer, MenuExit
  <1>3. CASE MainCall
    <2>1. CASE Detect
      <3>1. device' \in DeviceStates
        BY <2>1 DEF Detect
      <3> QED
        BY <2>1, <3>1, ZenonT(60) DEF Detect
    <2>2. CASE NewCable
      <3>1. device' = device
        BY <2>2 DEF NewCable
      <3> QED
        BY <2>2, <3>1, ZenonT(60) DEF NewCable
    <2>3. CASE NewCalc
      BY <2>3, Zenon DEF NewCalc
    <2>4. CASE Attach
      BY <2>4, Zenon DEF Attach
    <2>5. CASE DelCalc
      BY <2>5, Zenon DEF DelCalc
    <2>6. CASE NullCalc
      BY <2>6, Zenon DEF NullCalc
    <2>7. CASE DelCable
      BY <2>7, Zenon DEF DelCable
    <2>8. CASE ClearPolling
      BY <2>8, Zenon DEF ClearPolling
    <2>9. CASE StartPolling \/ StopPolling \/ Join
      BY <2>9, ZeroCycles, Zenon DEF StartPolling, StopPolling, Join
    <2>10. CASE Library("main")
      BY <2>10, LibraryFlags, ZenonT(60) DEF FlagsTypeOK, Threads
    <2> QED
      BY <1>3, <2>1, <2>2, <2>3, <2>4, <2>5, <2>6, <2>7, <2>8, <2>9, <2>10
         DEF MainCall, MainStep
  <1>4. CASE PollThread
    <2>1. CASE LoopTest \/ Ping \/ Finish
      BY ZenonT(60), <2>1 DEF LoopTest, Ping, Finish
    <2>2. CASE Sleep
      BY <2>2, PollCyclesAssumption DEF Sleep, CycleInv, pollStep
    <2>3. CASE Library("poll")
      BY <2>3, LibraryFlags, ZenonT(60) DEF FlagsTypeOK, Threads
    <2> QED
      BY <1>4, <2>1, <2>2, <2>3 DEF PollThread, PollStep
  <1>5. CASE UNCHANGED vars
    BY <1>5
  <1> QED
    BY <1>1, <1>2, <1>3, <1>4, <1>5 DEF Next, Exited

LEMMA ResultTypeNext ==
  result \in [Threads -> Results] /\ [Next]_vars => result' \in [Threads -> Results]
  BY ReturnResult
  DEF Fails, Threads, Results, WireResults, AppErrors,
      sessionVars, vars, Next, MainCode, User, MainCall, MainStep, PollThread, PollStep,
      Library, Exited, CallOpen, CallStartPolling, Continue, CallIsReady, AfterIsReady, EnterMenu,
      CallCleanup, Exit, MenuTransfer, MenuExit, Detect, NewCable, NewCalc, Attach, DelCalc,
      NullCalc, DelCable, ClearPolling, StartPolling, StopPolling, Join,
      LoopTest, Ping, Sleep, Finish, LibCheck, LibTake, LibRun, LibRelease

LEMMA Labels ==
  /\ {"out", "create"} \cup OpenSteps \cup CleanupSteps \cup StopSteps
        \cup LibrarySteps \subseteq MainLabels
  /\ PollSteps \cup LibrarySteps \subseteq PollLabels
  BY DEF MainLabels, PollLabels

LEMMA StepTypeNext == StepTypeOK /\ [Next]_vars => StepTypeOK'
  <1> SUFFICES ASSUME StepTypeOK, [Next]_vars PROVE StepTypeOK'
    OBVIOUS
  <1>1. CASE step' = step
    BY <1>1 DEF StepTypeOK
  <1>2. ASSUME NEW label \in MainLabels, Goto("main", label) PROVE StepTypeOK'
    BY <1>2, GotoLabel DEF Threads
  <1>3. ASSUME NEW label \in PollLabels, Goto("poll", label) PROVE StepTypeOK'
    BY <1>3, GotoLabel DEF Threads
  <1> USE Labels DEF Call, Fails, After, calcVars, cableVars, pollVars, sessionVars, vars
  <1>4. CASE MainCode \/ User
    BY <1>1, <1>2, <1>4 DEF MainCode, User, CallOpen, CallStartPolling, Continue, CallIsReady,
       AfterIsReady, EnterMenu, CallCleanup, Exit, MenuTransfer, MenuExit,
       OpenSteps, StopSteps, CleanupSteps, LibrarySteps
  <1>5. CASE MainCall
    <2>1. CASE Detect \/ NewCable \/ NewCalc \/ Attach
      BY <1>2, <2>1 DEF Detect, NewCable, NewCalc, Attach, OpenSteps, CleanupSteps
    <2>2. CASE DelCalc \/ NullCalc \/ DelCable \/ ClearPolling
      BY <1>2, <2>2 DEF DelCalc, NullCalc, DelCable, ClearPolling, CleanupSteps
    <2>3. CASE StartPolling
      BY <1>2, <2>3 DEF StartPolling, StepTypeOK, Threads, PollSteps
    <2>4. CASE StopPolling \/ Join
      BY <1>2, <2>4 DEF StopPolling, Join, StopSteps
    <2>5. CASE Library("main")
      BY <1>2, <2>5 DEF Library, LibCheck, LibTake, LibRun, LibRelease, LibrarySteps
    <2> QED
      BY <1>5, <2>1, <2>2, <2>3, <2>4, <2>5 DEF MainCall, MainStep
  <1>6. CASE PollThread
    <2>1. CASE LoopTest \/ Ping \/ Sleep \/ Finish
      BY <1>3, <2>1 DEF LoopTest, Ping, Sleep, Finish, PollSteps, LibrarySteps
    <2>2. CASE Library("poll")
      BY <1>3, <2>2 DEF Library, LibCheck, LibTake, LibRun, LibRelease, PollSteps, LibrarySteps
    <2> QED
      BY <1>6, <2>1, <2>2 DEF PollThread, PollStep
  <1>7. CASE UNCHANGED vars
    BY <1>1, <1>7
  <1> QED
    BY <1>4, <1>5, <1>6, <1>7 DEF Next, Exited

LEMMA MainNext ==
  ASSUME at \in MainAt, err \in ExitStatus, StatusInv, [Next]_vars
  PROVE  at' \in MainAt /\ err' \in ExitStatus
  BY DEF StatusInv, MainAt, ExitStatus, AppErrors, Call, Returned, sessionVars, vars, Next,
     MainCode, User, MainCall, PollThread, Exited, CallOpen, CallStartPolling, Continue,
     CallIsReady, AfterIsReady, EnterMenu, CallCleanup, Exit, MenuTransfer, MenuExit

-----------------------------------------------------------------------------
(* The inductive invariant. *)

Parts ==
    /\ PlaceInv /\ HandleInv /\ OpenInv /\ ReadyInv /\ PollInv
    /\ BusyInv /\ TransferInv /\ EndInv /\ CycleInv /\ LeakInv /\ StatusInv

LEMMA InitIInv == Init => IInv
  <1> SUFFICES ASSUME Init PROVE IInv
    OBVIOUS
  <1> USE DEF Init, SessionInit
  <1>1. step["main"] = "out" /\ step["poll"] = "none"
    BY DEF Threads
  <1>2. PlaceInv /\ HandleInv /\ OpenInv /\ EndInv /\ CycleInv /\ LeakInv
    BY <1>1 DEF LeakInv, PlaceInv, HandleInv, OpenInv, EndInv, CycleInv, mainStep, pollStep,
       CleanupSteps, LibrarySteps
  <1>3. ReadyInv /\ PollInv /\ BusyInv /\ TransferInv
    BY <1>1 DEF ReadyInv, PollInv, PollAlive, BusyInv, TransferInv, mainStep, pollStep
  <1>4. StatusInv
    BY DEF StatusInv, Threads
  <1> QED
    BY <1>2, <1>3, <1>4, InitTypeOK DEF IInv

LEMMA NextParts == IInv /\ [Next]_vars => Parts'
  <1> SUFFICES ASSUME IInv, [Next]_vars PROVE Parts'
    OBVIOUS
  <1> USE DEF Parts, IInv, MainTypeOK, TypeOK, StepTypeOK, Threads, PlaceInv, HandleInv,
      OpenInv, ReadyInv, Ready, PollInv, PollAlive, BusyInv, TransferInv, EndInv, CycleInv,
      LeakInv, StatusInv, AppErrors, mainStep, pollStep, OpenSteps, CleanupSteps, StopSteps, LibrarySteps, calcVars,
      cableVars, pollVars, sessionVars, vars, Goto
  <1>1. CASE CallOpen
    BY <1>1 DEF CallOpen, Returned, Call
  <1>2. CASE CallStartPolling
    BY <1>2 DEF CallStartPolling, Returned, Continue, Call
  <1>3. CASE CallIsReady
    BY <1>3 DEF CallIsReady, Returned, Continue, Call
  <1>4. CASE AfterIsReady
    BY <1>4 DEF AfterIsReady, Returned, Call
  <1>5. CASE EnterMenu
    BY <1>5 DEF EnterMenu, Returned
  <1>6. CASE CallCleanup
    BY <1>6 DEF CallCleanup, Returned, Call
  <1>7. CASE Exit
    BY <1>7 DEF Exit, Returned
  <1>8. CASE MenuTransfer
    BY <1>8 DEF MenuTransfer, Returned, Call
  <1>9. CASE MenuExit
    BY <1>9 DEF MenuExit, Returned, Call
  <1>10. CASE Detect /\ UNCHANGED <<at, err>>
    <2>1. /\ at = "opening" /\ at' = at /\ device # "unclaimed" /\ device' # "claimed"
          /\ UNCHANGED <<calcVars, cablePtr, cableMem, cableOpen, pollVars, err>>
          /\ pollStep' = pollStep
      BY <1>10 DEF Detect, Fails, OpenFails, MainAt, FlagsTypeOK, DeviceStates
    <2>2. \/ mainStep' = "newCable" /\ UNCHANGED <<device, result>>
          \/ mainStep' = "delCalc" /\ result'["main"] = "NO_CALC"
          \/ mainStep' = "delCalc" /\ result'["main"] = "NO_CABLE" /\ UNCHANGED device
      BY <1>10 DEF Detect, Fails, Return
    <2>3. LeakInv' /\ HandleInv' /\ OpenInv' /\ StatusInv'
      BY <1>10, <2>1, <2>2 DEF Detect
    <2>4. BusyInv'
      BY <1>10, <2>1, <2>2 DEF Detect
    <2>5. PlaceInv' /\ ReadyInv' /\ PollInv' /\ TransferInv' /\ EndInv' /\ CycleInv'
      BY <2>1, <2>2
    <2> QED
      BY <2>3, <2>4, <2>5
  <1>11. CASE NewCable /\ UNCHANGED <<at, err>>
    BY <1>11 DEF NewCable, Fails, Return
  <1>12. CASE NewCalc /\ UNCHANGED <<at, err>>
    BY <1>12 DEF NewCalc, Fails, Return
  <1>13. CASE Attach /\ UNCHANGED <<at, err>>
    <2>1. /\ at = "opening" /\ at' = at /\ device = "closed"
          /\ UNCHANGED <<calcPtr, calcMem, busy, cablePtr, cableMem, pollVars, err>>
          /\ pollStep' = pollStep /\ attached'
      BY <1>13 DEF Attach, Fails, MainAt, FlagsTypeOK, DeviceStates
    <2>2. \/ /\ mainStep' = "out" /\ result'["main"] = "OK"
             /\ opened' /\ cableOpen' /\ device' = "claimed"
          \/ /\ mainStep' = "delCalc" /\ result'["main"] = "NO_CABLE"
             /\ UNCHANGED <<cableOpen, opened>> /\ device' \in {"closed", "unclaimed"}
      BY <1>13, <2>1 DEF Attach, Fails, Return, OpenFails
    <2>3. LeakInv' /\ HandleInv' /\ OpenInv' /\ StatusInv' /\ ReadyInv'
      BY <1>13, <2>1, <2>2 DEF Attach
    <2>4. BusyInv'
      BY <1>13, <2>1, <2>2 DEF Attach
    <2>5. PlaceInv' /\ PollInv' /\ TransferInv' /\ EndInv' /\ CycleInv'
      BY <2>1, <2>2
    <2> QED
      BY <2>3, <2>4, <2>5
  <1>14. CASE DelCalc /\ UNCHANGED <<at, err>>
    BY <1>14 DEF DelCalc
  <1>15. CASE NullCalc /\ UNCHANGED <<at, err>>
    BY <1>15 DEF NullCalc
  <1>16. CASE DelCable /\ UNCHANGED <<at, err>>
    BY <1>16 DEF DelCable
  <1>17. CASE ClearPolling /\ UNCHANGED <<at, err>>
    BY <1>17 DEF ClearPolling
  <1>18. CASE StartPolling /\ UNCHANGED <<at, err>>
    <2>1. at = "starting" /\ Ready /\ pollStep = "none" /\ mainStep = "create"
      BY <1>18 DEF StartPolling, MainAt
    <2>2. UNCHANGED <<calcVars, cableVars, busy>> /\ mainStep' = "out" /\ at' = "starting"
      BY <1>18, <2>1 DEF StartPolling
    <2>3. \/ result'["main"] = "OK" /\ pollThreadStarted' /\ pollStep' = "loop"
          \/ result'["main"] = "THREAD" /\ pollStep' = "none"
             /\ pollThreadStarted' = pollThreadStarted
      BY <1>18, <2>1 DEF StartPolling, Return
    <2>4. PlaceInv' /\ HandleInv' /\ OpenInv' /\ ReadyInv'
      BY <2>1, <2>2, <2>3
    <2>5. BusyInv'
      BY <1>18, <2>1, <2>2 DEF StartPolling
    <2>6. PollInv' /\ TransferInv' /\ EndInv' /\ CycleInv' /\ LeakInv' /\ StatusInv'
      BY <2>1, <2>2, <2>3
    <2> QED
      BY <2>4, <2>5, <2>6
  <1>19. CASE StopPolling /\ UNCHANGED <<at, err>>
    BY <1>19 DEF StopPolling
  <1>20. CASE Join /\ UNCHANGED <<at, err>>
    BY <1>20 DEF Join
  <1>21. CASE LoopTest /\ UNCHANGED <<at, err>>
    BY <1>21 DEF LoopTest
  <1>22. CASE Ping /\ UNCHANGED <<at, err>>
    BY <1>22 DEF Ping
  <1>23. CASE Sleep /\ UNCHANGED <<at, err>>
    BY <1>23 DEF Sleep
  <1>24. CASE Finish /\ UNCHANGED <<at, err>>
    BY <1>24 DEF Finish
  <1>25. CASE LibCheck("main") /\ UNCHANGED <<at, err>>
    BY <1>25 DEF LibCheck, Return, After
  <1>26. CASE LibCheck("poll") /\ UNCHANGED <<at, err>>
    BY <1>26 DEF LibCheck, Return, After
  <1>27. CASE LibTake("main") /\ UNCHANGED <<at, err>>
    BY <1>27 DEF LibTake
  <1>28. CASE LibTake("poll") /\ UNCHANGED <<at, err>>
    BY <1>28 DEF LibTake
  <1>29. CASE LibRun("main") /\ UNCHANGED <<at, err>>
    BY <1>29 DEF LibRun, Return, WireResults
  <1>30. CASE LibRun("poll") /\ UNCHANGED <<at, err>>
    BY <1>30 DEF LibRun, Return
  <1>31. CASE LibRelease("main") /\ UNCHANGED <<at, err>>
    BY <1>31 DEF LibRelease, After
  <1>32. CASE LibRelease("poll") /\ UNCHANGED <<at, err>>
    BY <1>32 DEF LibRelease, After
  <1>33. CASE UNCHANGED vars
    BY <1>33
  <1> QED
    BY <1>1, <1>2, <1>3, <1>4, <1>5, <1>6, <1>7, <1>8, <1>9, <1>10,
       <1>11, <1>12, <1>13, <1>14, <1>15, <1>16, <1>17, <1>18, <1>19, <1>20,
       <1>21, <1>22, <1>23, <1>24, <1>25, <1>26, <1>27, <1>28, <1>29, <1>30,
       <1>31, <1>32, <1>33
       DEF Next, MainCode, User, MainCall, MainStep, PollThread, PollStep, Library, Exited

LEMMA IInvariant == Spec => []IInv
  <1>1. IInv /\ [Next]_vars => IInv'
    <2> SUFFICES ASSUME IInv, [Next]_vars PROVE IInv'
      OBVIOUS
    <2>1. MainTypeOK'
      <3>1. at' \in MainAt /\ err' \in ExitStatus
        BY MainNext DEF IInv, MainTypeOK
      <3> QED
        BY <3>1, FlagsTypeNext, StepTypeNext, ResultTypeNext
           DEF IInv, MainTypeOK, TypeOK
    <2>2. Parts'
      BY NextParts
    <2> QED
      BY <2>1, <2>2 DEF IInv, Parts
  <1> QED
    BY InitIInv, <1>1, PTL DEF Spec

-----------------------------------------------------------------------------
(* The theorems. *)

\* main(), the polling thread and the two handles keep to their types; the
\* polling thread's cycle count stays within CALC_SESSION_MAX_POLL_CYCLES.
THEOREM TypeCorrect == Spec => []MainTypeOK
  <1>1. IInv => MainTypeOK
    BY DEF IInv
  <1> QED
    BY IInvariant, <1>1, PTL

\* No thread is inside libticalcs on a handle that calc_session_cleanup has
\* freed or calc_session_open has not finished.
THEOREM MemorySafe == Spec => []NoUseAfterFree
  <1>1. IInv => NoUseAfterFree
    <2> SUFFICES ASSUME IInv PROVE NoUseAfterFree
      OBVIOUS
    <2> USE DEF IInv, Ready, ReadyInv, HandleInv, PlaceInv, OpenInv, PollInv, PollAlive,
                mainStep, pollStep, Threads, LibrarySteps
    <2>1. step["poll"] \in LibrarySteps => Ready
      OBVIOUS
    <2>2. step["main"] \in LibrarySteps => at \in {"pinging", "transfer"}
      BY DEF OpenSteps, CleanupSteps, StopSteps, MainTypeOK, MainAt
    <2> QED
      BY <2>1, <2>2 DEF NoUseAfterFree
  <1> QED
    BY IInvariant, <1>1, PTL

\* Nothing else uses the calculator while the menu does, and no transfer of
\* the menu is refused with ERR_BUSY.
THEOREM MenuHasCalculator == Spec => []MenuExclusive
  <1>1. IInv => MenuExclusive
    BY DEF IInv, MenuExclusive, PollInv, BusyInv, TransferInv, Threads, mainStep, pollStep
  <1> QED
    BY IInvariant, <1>1, PTL

\* Whatever failed on the way, main() exits with both handles freed, no thread
\* left and a claimed device closed. A device still open is one that
\* calc_session_open could not claim, and main() then exits with its error.
THEOREM CleanExit == Spec => []NothingLeaks
  <1>1. IInv => NothingLeaks
    BY DEF IInv, NothingLeaks, PollInv, PollAlive, HandleInv, PlaceInv, EndInv, LeakInv,
           MainTypeOK, TypeOK, FlagsTypeOK, DeviceStates, mainStep, pollStep
  <1> QED
    BY IInvariant, <1>1, PTL

\* calc_session_stop_polling is heeded: poll_active is clear while main()
\* waits in pthread_join, so the loop condition ends the thread.
THEOREM StopHeeded == Spec => StopIsHeeded
  <1>1. IInv /\ [Next]_vars =>
          [step["main"] = "join" /\ step["poll"] = "loop" /\ step'["poll"] # "loop"
             => step'["poll"] = "finish"]_vars
    <2> SUFFICES ASSUME IInv, [Next]_vars, step["main"] = "join", step["poll"] = "loop",
                        step'["poll"] # "loop"
                 PROVE  step'["poll"] = "finish"
      OBVIOUS
    <2>1. ~pollActive
      BY DEF IInv, PollInv, mainStep
    <2>2. CASE PollThread
      BY <2>1, <2>2 DEF PollThread, PollStep, LoopTest, Ping, Sleep, Finish, Library,
         LibCheck, LibTake, LibRun, LibRelease, Goto, IInv, MainTypeOK, TypeOK, StepTypeOK,
         Threads
    <2>3. CASE ~PollThread
      BY <2>3 DEF Next, MainCode, User, MainCall, MainStep, Exited, CallOpen,
         CallStartPolling, Continue, CallIsReady, AfterIsReady, EnterMenu, CallCleanup, Exit,
         MenuTransfer, MenuExit, Returned, Call, Goto, Detect, NewCable, NewCalc, Attach,
         Fails, DelCalc, NullCalc, DelCable, ClearPolling, StartPolling, StopPolling, Join,
         Library, LibCheck, LibTake, LibRun, LibRelease, sessionVars, vars, IInv,
         MainTypeOK, TypeOK, StepTypeOK, Threads
    <2> QED
      BY <2>2, <2>3
  <1> QED
    BY IInvariant, <1>1, PTL DEF Spec, StopIsHeeded
=============================================================================
