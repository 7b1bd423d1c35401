------------------------------- MODULE CliMain -------------------------------
(***************************************************************************)
(* main() of src/main.c: open the session, poll, ping the calculator once, *)
(* stop polling, serve the menu, and tear everything down. The menu's      *)
(* functions are seen here as what they do to the calculator handle, one   *)
(* library transfer each; WalletCli models what they do with the answer.   *)
(***************************************************************************)
EXTENDS CalcSession

VARIABLES
    at,   \* where main() is; while it is in a call, the call it waits for
    err   \* main()'s exit status

vars == <<sessionVars, at, err>>

MainAt == {"start", "opening", "starting", "pinging", "stopBeforeMenu", "menu",
           "transfer", "stopping", "cleaning", "exited"}

ExitStatus == {"OK", "NO_CALC", "NO_CABLE", "ALLOC", "THREAD", "NOT_READY"}

MainTypeOK == TypeOK /\ at \in MainAt /\ err \in ExitStatus

Init == SessionInit /\ at = "start" /\ err = "OK"

Call(place, label) == at' = place /\ Goto("main", label)

Returned(place) == at = place /\ step["main"] = "out"

CallOpen ==
    /\ Returned("start")
    /\ Call("opening", "detect")
    /\ UNCHANGED <<calcVars, cableVars, pollVars, result, err>>

\* One status decides whether main() goes on to `next' or to the tear-down.
Continue(next, label) ==
    /\ err' = result["main"]
    /\ IF result["main"] = "OK" THEN Call(next, label) ELSE Call("stopping", "stop")
    /\ UNCHANGED <<calcVars, cableVars, pollVars, result>>

CallStartPolling == Returned("opening") /\ Continue("starting", "create")

CallIsReady == Returned("starting") /\ Continue("pinging", "check")

\* A fault: the menu is served while the thread still polls.
AfterIsReadyPolling ==
    /\ Returned("pinging")
    /\ IF result["main"] = "OK"
         THEN at' = "menu" /\ UNCHANGED <<step, err>>
         ELSE Call("stopping", "stop") /\ err' = "NOT_READY"
    /\ UNCHANGED <<calcVars, cableVars, pollVars, result>>

AfterIsReady ==
    /\ Returned("pinging")
    /\ IF result["main"] = "OK"
         THEN Call("stopBeforeMenu", "stop") /\ UNCHANGED err
         ELSE Call("stopping", "stop") /\ err' = "NOT_READY"
    /\ UNCHANGED <<calcVars, cableVars, pollVars, result>>

EnterMenu ==
    /\ Returned("stopBeforeMenu") \/ Returned("transfer")
    /\ at' = "menu"
    /\ UNCHANGED <<sessionVars, err>>

\* Any menu option that reaches the calculator: the store and fetch functions
\* of calc_string_store.c refuse a session without a handle.
MenuTransfer ==
    /\ Returned("menu")
    /\ calcPtr
    /\ Call("transfer", "check")
    /\ UNCHANGED <<calcVars, cableVars, pollVars, result, err>>

\* MENU_OPTION_EXIT, or end of input.
MenuExit ==
    /\ Returned("menu")
    /\ Call("stopping", "stop")
    /\ UNCHANGED <<calcVars, cableVars, pollVars, result, err>>

CallCleanup ==
    /\ Returned("stopping")
    /\ Call("cleaning", "delCalc")
    /\ UNCHANGED <<calcVars, cableVars, pollVars, result, err>>

Exit ==
    /\ Returned("cleaning")
    /\ at' = "exited"
    /\ UNCHANGED <<sessionVars, err>>

Exited == at = "exited" /\ UNCHANGED vars

MainCode ==
    \/ CallOpen \/ CallStartPolling \/ CallIsReady \/ AfterIsReady
    \/ EnterMenu \/ CallCleanup \/ Exit

User == MenuTransfer \/ MenuExit

MainCall == MainStep /\ UNCHANGED <<at, err>>

PollThread == PollStep /\ UNCHANGED <<at, err>>

Next == MainCode \/ User \/ MainCall \/ PollThread \/ Exited

Spec == Init /\ [][Next]_vars

\* Threads are scheduled, and a call on the calculator ends: the cable's
\* timeout is set when the session opens. Nobody promises what the user does.
Fairness == WF_vars(MainCode \/ MainCall) /\ WF_vars(PollThread)

FairSpec == Spec /\ Fairness

-----------------------------------------------------------------------------
(* Properties *)

\* The library never runs on a handle that is not there: a thread inside a
\* call of libticalcs has a live CalcHandle attached to a live cable with the
\* device claimed, also while calc_session_cleanup frees them, and the detach done by
\* ticalcs_handle_del finds the cable it closes. calc_session_cleanup itself
\* does not stop the polling thread; this rests on main() having joined it.
NoUseAfterFree ==
    /\ \A t \in Threads :
          /\ step[t] \in LibrarySteps => calcMem = "live"
          /\ step[t] \in LibrarySteps \ {"check"} =>
                attached /\ opened /\ cableMem = "live" /\ device = "claimed"
    /\ step["main"] = "delCalc" /\ calcPtr /\ attached => cableMem = "live"

\* From the menu on, main() has the calculator to itself: the polling thread
\* is gone, and no transfer chosen in the menu fails because the library
\* believes a call in progress, although `busy' is taken and released by two
\* threads without a lock while main() pings.
MenuExclusive ==
    at \in {"menu", "transfer"} =>
        /\ step["poll"] = "done"
        /\ step["main"] = "check" => ~busy
        /\ at = "transfer" /\ step["main"] = "out" => result["main"] # "ERR_BUSY"

\* What the process leaves behind: the polling thread is joined, both handles
\* are freed, and a device that was claimed is released and closed (freeing a
\* CableHandle does not close it, only ticalcs_handle_del does). Left open is a
\* device whose interface could not be claimed, and then main() exits with the
\* error of a failed open: no run that got as far as the menu leaves it open.
NothingLeaks ==
    /\ cableMem = "freed" => device # "claimed"
    /\ at = "exited" =>
         /\ calcMem # "live" /\ cableMem # "live" /\ ~calcPtr /\ ~cablePtr
         /\ step["poll"] \in {"none", "done"}
         /\ device # "closed" => device = "unclaimed" /\ err \in {"NO_CALC", "NO_CABLE"}

\* Once main() waits for the polling thread, the thread does not begin another
\* ping after the one it may be in: poll_active stays clear until the join.
StopIsHeeded ==
    [][step["main"] = "join" /\ step["poll"] = "loop" /\ step'["poll"] # "loop"
          => step'["poll"] = "finish"]_vars

\* calc_session_stop_polling returns, whatever the thread was doing when it
\* was called, with the menu or the exit status still to come.
StopReturns == step["main"] = "join" ~> step["main"] # "join"

\* "Calculator did not respond to RDY ping" (src/main.c:1876) is said only of
\* a calculator that was asked.
NotReadyMeansPinged ==
    err = "NOT_READY" => result["main"] \in WireResults
=============================================================================
