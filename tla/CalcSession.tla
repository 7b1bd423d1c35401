----------------------------- MODULE CalcSession -----------------------------
(***************************************************************************)
(* src/calc_session.c together with the part of libticalcs and libticables *)
(* it stands on: a CalcHandle, a CableHandle, the polling thread, and a    *)
(* library call on the CalcHandle, whose `busy' flag is read and written   *)
(* without a lock.                                                         *)
(*                                                                         *)
(* A function of the code is a sequence of labels; step[t] is the label    *)
(* thread t is about to execute, "out" when it executes none of this code. *)
(* The caller sets step[t] to a function's first label and goes on when it *)
(* is "out" again, with the function's status in result[t].                *)
(***************************************************************************)
EXTENDS Naturals

CONSTANT MaxPollCycles   \* CALC_SESSION_MAX_POLL_CYCLES, 3600000 in the code

ASSUME PollCyclesAssumption == MaxPollCycles \in Nat

Threads == {"main", "poll"}

VARIABLES
    calcPtr,            \* session->calc # NULL
    calcMem,            \* the CalcHandle's memory
    attached,           \* CalcHandle.attached
    opened,             \* CalcHandle.open
    busy,               \* CalcHandle.busy
    cablePtr,           \* session->cable # NULL
    cableMem,           \* the CableHandle's memory
    cableOpen,          \* CableHandle.open
    device,             \* what the process holds of the USB device
    pollActive,         \* session->poll_active
    pollThreadStarted,  \* session->poll_thread_started
    cycle,              \* cycle_count, a local of the polling thread
    step,               \* the label each thread is at
    result              \* the status the last call of each thread returned

calcVars == <<calcPtr, calcMem, attached, opened, busy>>
cableVars == <<cablePtr, cableMem, cableOpen, device>>
pollVars == <<pollActive, pollThreadStarted, cycle>>
sessionVars == <<calcVars, cableVars, pollVars, step, result>>

\* Allocated once at most, by calc_session_open, so one flag tells its story.
Memory == {"none", "live", "freed"}

\* "unclaimed" is a device that tigl_open opened and whose interface it could
\* not claim: nothing remembers that it is open, and nothing closes it.
DeviceStates == {"closed", "unclaimed", "claimed"}

OpenSteps == {"detect", "newCable", "newCalc", "attach"}
CleanupSteps == {"delCalc", "nullCalc", "delCable", "clear"}
StopSteps == {"stop", "join"}
LibrarySteps == {"check", "take", "run", "release"}
PollSteps == {"none", "loop", "ping", "sleep", "finish", "done"}

MainLabels == {"out", "create"} \cup OpenSteps \cup CleanupSteps \cup StopSteps
                  \cup LibrarySteps
PollLabels == PollSteps \cup LibrarySteps

AppErrors == {"NO_CALC", "NO_CABLE", "ALLOC", "THREAD"}

\* What the exchange with the calculator itself can answer; the library adds
\* ERR_NO_CABLE and ERR_BUSY without talking to the calculator.
WireResults == {"OK", "ERR_NOT_READY", "ERR_LINK"}
Results == {"OK", "ERR_NO_CABLE", "ERR_BUSY"} \cup WireResults \cup AppErrors

FlagsTypeOK ==
    /\ calcPtr \in BOOLEAN /\ calcMem \in Memory
    /\ attached \in BOOLEAN /\ opened \in BOOLEAN /\ busy \in BOOLEAN
    /\ cablePtr \in BOOLEAN /\ cableMem \in Memory /\ cableOpen \in BOOLEAN
    /\ device \in DeviceStates
    /\ pollActive \in BOOLEAN /\ pollThreadStarted \in BOOLEAN
    /\ cycle \in 0..MaxPollCycles

StepTypeOK ==
    /\ step \in [Threads -> MainLabels \cup PollLabels]
    /\ step["main"] \in MainLabels
    /\ step["poll"] \in PollLabels

TypeOK == FlagsTypeOK /\ StepTypeOK /\ result \in [Threads -> Results]

SessionInit ==
    /\ calcPtr = FALSE /\ calcMem = "none"
    /\ attached = FALSE /\ opened = FALSE /\ busy = FALSE
    /\ cablePtr = FALSE /\ cableMem = "none" /\ cableOpen = FALSE /\ device = "closed"
    /\ pollActive = FALSE /\ pollThreadStarted = FALSE /\ cycle = 0
    /\ step = [t \in Threads |-> IF t = "main" THEN "out" ELSE "none"]
    /\ result = [t \in Threads |-> "OK"]

Goto(t, label) == step' = [step EXCEPT ![t] = label]
Return(t, status) == result' = [result EXCEPT ![t] = status]

-----------------------------------------------------------------------------
(* calc_session_open: each failure goes through calc_session_cleanup. *)

Fails(status) == Return("main", status) /\ Goto("main", "delCalc")

\* tigl_open does not open the device, or opens it and cannot claim its
\* interface, and then does not close it.
OpenFails == device' \in {device, "unclaimed"}

\* The probe of a SilverLink opens the device too, with a handle of its own; it
\* closes what it opened, and ends the search when it cannot open.
Detect ==
    /\ step["main"] = "detect"
    /\ \/ Goto("main", "newCable") /\ UNCHANGED <<device, result>>
       \/ Fails("NO_CALC") /\ OpenFails         \* no USB device, or the probe failed
       \/ Fails("NO_CABLE") /\ UNCHANGED device  \* CABLE_FAMILY_UNKNOWN
    /\ UNCHANGED <<calcVars, cablePtr, cableMem, cableOpen, pollVars>>

NewCable ==
    /\ step["main"] = "newCable"
    /\ \/ /\ cablePtr' = TRUE /\ cableMem' = "live" /\ cableOpen' = FALSE
          /\ Goto("main", "newCalc")
          /\ UNCHANGED <<device, result>>
       \/ Fails("NO_CABLE") /\ UNCHANGED cableVars
    /\ UNCHANGED <<calcVars, pollVars>>

NewCalc ==
    /\ step["main"] = "newCalc"
    /\ \/ /\ calcPtr' = TRUE /\ calcMem' = "live"
          /\ attached' = FALSE /\ opened' = FALSE /\ busy' = FALSE
          /\ Goto("main", "attach")
          /\ UNCHANGED result
       \/ Fails("ALLOC") /\ UNCHANGED calcVars
    /\ UNCHANGED <<cableVars, pollVars>>

\* ticalcs_cable_attach marks the handle attached before it opens the cable,
\* so a handle whose cable would not open is attached and not open.
Attach ==
    /\ step["main"] = "attach"
    /\ attached' = TRUE
    /\ \/ /\ cableOpen' = TRUE /\ opened' = TRUE /\ device' = "claimed"
          /\ Return("main", "OK") /\ Goto("main", "out")
       \/ Fails("NO_CABLE") /\ OpenFails /\ UNCHANGED <<cableOpen, opened>>
    /\ UNCHANGED <<calcPtr, calcMem, busy, cablePtr, cableMem, pollVars>>

-----------------------------------------------------------------------------
(* calc_session_cleanup. It neither stops nor joins the polling thread. *)

\* A fault: the handle is freed without its detach, and the device stays open.
DelCalcWithoutDetach ==
    /\ step["main"] = "delCalc"
    /\ calcMem' = IF calcPtr THEN "freed" ELSE calcMem
    /\ attached' = FALSE /\ opened' = FALSE /\ busy' = FALSE
    /\ Goto("main", IF calcPtr THEN "nullCalc" ELSE "delCable")
    /\ UNCHANGED <<calcPtr, cableVars, pollVars, result>>

\* ticalcs_handle_del: an attached handle closes its cable, then is freed. A
\* cable closes the device only when it has marked itself open.
DelCalc ==
    /\ step["main"] = "delCalc"
    /\ IF calcPtr
         THEN /\ cableOpen' = (cableOpen /\ ~attached)
              /\ device' = IF attached /\ cableOpen THEN "closed" ELSE device
              /\ calcMem' = "freed"
              /\ attached' = FALSE /\ opened' = FALSE /\ busy' = FALSE
              /\ Goto("main", "nullCalc")
         ELSE /\ Goto("main", "delCable")
              /\ UNCHANGED <<cableOpen, device, calcMem, attached, opened, busy>>
    /\ UNCHANGED <<calcPtr, cablePtr, cableMem, pollVars, result>>

NullCalc ==
    /\ step["main"] = "nullCalc"
    /\ calcPtr' = FALSE
    /\ Goto("main", "delCable")
    /\ UNCHANGED <<calcMem, attached, opened, busy, cableVars, pollVars, result>>

\* ticables_handle_del frees the handle and does not close the device.
DelCable ==
    /\ step["main"] = "delCable"
    /\ cableMem' = IF cablePtr THEN "freed" ELSE cableMem
    /\ cablePtr' = FALSE
    /\ Goto("main", "clear")
    /\ UNCHANGED <<cableOpen, device, calcVars, pollVars, result>>

ClearPolling ==
    /\ step["main"] = "clear"
    /\ pollActive' = FALSE /\ pollThreadStarted' = FALSE
    /\ Goto("main", "out")
    /\ UNCHANGED <<calcVars, cableVars, cycle, result>>

-----------------------------------------------------------------------------
(* calc_session_start_polling and calc_session_stop_polling. *)

StartPolling ==
    /\ step["main"] = "create"
    /\ \/ /\ ~calcPtr
          /\ Return("main", "NO_CALC") /\ Goto("main", "out")
          /\ UNCHANGED pollVars
       \/ /\ calcPtr                     \* pthread_create succeeds
          /\ pollActive' = TRUE /\ pollThreadStarted' = TRUE /\ cycle' = 0
          /\ step' = [step EXCEPT !["main"] = "out", !["poll"] = "loop"]
          /\ Return("main", "OK")
       \/ /\ calcPtr                     \* pthread_create fails
          /\ pollActive' = FALSE
          /\ Return("main", "THREAD") /\ Goto("main", "out")
          /\ UNCHANGED <<pollThreadStarted, cycle>>
    /\ UNCHANGED <<calcVars, cableVars>>

\* Faults: the thread is told to stop and not joined; it is joined and not told.
StopWithoutJoin ==
    /\ step["main"] = "stop"
    /\ pollActive' = FALSE
    /\ Goto("main", "out")
    /\ UNCHANGED <<calcVars, cableVars, pollThreadStarted, cycle, result>>

JoinWithoutStop ==
    /\ step["main"] = "stop"
    /\ Goto("main", IF pollThreadStarted THEN "join" ELSE "out")
    /\ UNCHANGED <<calcVars, cableVars, pollVars, result>>

StopPolling ==
    /\ step["main"] = "stop"
    /\ IF pollThreadStarted
         THEN pollActive' = FALSE /\ Goto("main", "join")
         ELSE Goto("main", "out") /\ UNCHANGED pollActive
    /\ UNCHANGED <<calcVars, cableVars, pollThreadStarted, cycle, result>>

Join ==
    /\ step["main"] = "join"
    /\ step["poll"] = "done"
    /\ pollThreadStarted' = FALSE
    /\ Goto("main", "out")
    /\ UNCHANGED <<calcVars, cableVars, pollActive, cycle, result>>

-----------------------------------------------------------------------------
(* calc_session_polling_thread. *)

\* A fault: the bound on the number of pings is gone.
LoopTestUnbounded ==
    /\ step["poll"] = "loop"
    /\ Goto("poll", IF pollActive THEN "ping" ELSE "finish")
    /\ UNCHANGED <<calcVars, cableVars, pollVars, result>>

LoopTest ==
    /\ step["poll"] = "loop"
    /\ Goto("poll", IF pollActive /\ cycle < MaxPollCycles THEN "ping" ELSE "finish")
    /\ UNCHANGED <<calcVars, cableVars, pollVars, result>>

Ping ==
    /\ step["poll"] = "ping"
    /\ Goto("poll", IF calcPtr THEN "check" ELSE "sleep")
    /\ UNCHANGED <<calcVars, cableVars, pollVars, result>>

\* A fault: the thread pings once more before it looks at poll_active, for ever.
SleepSkippingTest ==
    /\ step["poll"] = "sleep"
    /\ Goto("poll", "ping")
    /\ UNCHANGED <<calcVars, cableVars, pollVars, result>>

Sleep ==
    /\ step["poll"] = "sleep"
    /\ cycle' = cycle + 1
    /\ Goto("poll", "loop")
    /\ UNCHANGED <<calcVars, cableVars, pollActive, pollThreadStarted, result>>

Finish ==
    /\ step["poll"] = "finish"
    /\ pollActive' = FALSE
    /\ Goto("poll", "done")
    /\ UNCHANGED <<calcVars, cableVars, pollThreadStarted, cycle, result>>

-----------------------------------------------------------------------------
(* A call of ticalcs_calc_isready, ticalcs_calc_send_var or                *)
(* ticalcs_calc_recv_var on session->calc: all three test the three flags, *)
(* take `busy', talk to the calculator and release `busy'.                 *)

After(t) == IF t = "main" THEN "out" ELSE "sleep"

LibCheck(t) ==
    /\ step[t] = "check"
    /\ \/ /\ ~attached \/ ~opened
          /\ Return(t, "ERR_NO_CABLE") /\ Goto(t, After(t))
       \/ /\ attached /\ opened /\ busy
          /\ Return(t, "ERR_BUSY") /\ Goto(t, After(t))
       \/ /\ attached /\ opened /\ ~busy
          /\ Goto(t, "take") /\ UNCHANGED result
    /\ UNCHANGED <<calcVars, cableVars, pollVars>>

LibTake(t) ==
    /\ step[t] = "take"
    /\ busy' = TRUE
    /\ Goto(t, "run")
    /\ UNCHANGED <<calcPtr, calcMem, attached, opened, cableVars, pollVars, result>>

LibRun(t) ==
    /\ step[t] = "run"
    /\ \E answer \in WireResults : Return(t, answer)
    /\ Goto(t, "release")
    /\ UNCHANGED <<calcVars, cableVars, pollVars>>

LibRelease(t) ==
    /\ step[t] = "release"
    /\ busy' = FALSE
    /\ Goto(t, After(t))
    /\ UNCHANGED <<calcPtr, calcMem, attached, opened, cableVars, pollVars, result>>

Library(t) == LibCheck(t) \/ LibTake(t) \/ LibRun(t) \/ LibRelease(t)

MainStep ==
    \/ Detect \/ NewCable \/ NewCalc \/ Attach
    \/ DelCalc \/ NullCalc \/ DelCable \/ ClearPolling
    \/ StartPolling \/ StopPolling \/ Join
    \/ Library("main")

PollStep == LoopTest \/ Ping \/ Sleep \/ Finish \/ Library("poll")
=============================================================================
