----------------------- MODULE DesktopCalculator_proofs -----------------------
(***************************************************************************)
(* For any slots, keypairs and number of operations at once: a closure has *)
(* the calculator to itself, which nobody drops or replaces meanwhile, and *)
(* a window that says Connected has a calculator.                          *)
(***************************************************************************)
EXTENDS DesktopCalculator, TLAPS

USE ContentAssumption, TasksAssumption

-----------------------------------------------------------------------------
(* The inductive invariant. What an operation knows grows with its steps:  *)
(* the slot from the click, a new keypair before it asks for the mutex, a  *)
(* loaded one when it ends well. NeverDroppedInUse and                     *)
(* ConnectedHasCalculator need no more than that.                          *)

Fits(x) ==
    /\ x.kind \in {"load", "create"} => x.slot \in Slots
    /\ x.kind = "create" /\ x.at \in {"lock", "use"} => x.key \in Keypairs
    /\ x.kind = "load" /\ x.at = "done" => x.key \in Keypairs

Fitting == {x \in Task : Fits(x)}

SignalsOK ==
    /\ status \in Statuses /\ loaded \in Loaded \cup {Nothing}
    /\ handle \in BOOLEAN /\ loading \in BOOLEAN /\ creating \in BOOLEAN /\ busy \in BOOLEAN
    /\ drawn \in [status : Statuses, loading : BOOLEAN, busy : BOOLEAN]
    /\ ui \in Tasks \cup {"free", "disconnect"}
    /\ mutex \in Tasks \cup {"none"}

IInv ==
    /\ SignalsOK
    /\ task \in [Tasks -> Fitting]
    /\ store \in [Slots -> Contents]
    /\ NeverDroppedInUse
    /\ ConnectedHasCalculator

-----------------------------------------------------------------------------
(* What an operation can become. *)

LEMMA IdleFits == Idle \in Fitting
  BY DEF Idle, Fitting, Fits, Task, Kinds, Steps

LEMMA StartFits ==
  ASSUME NEW s \in Slots
  PROVE  /\ [Idle EXCEPT !.kind = "load", !.at = "lock", !.slot = s] \in Fitting
         /\ [Idle EXCEPT !.kind = "create", !.at = "generate", !.slot = s] \in Fitting
  BY DEF Idle, Fitting, Fits, Task, Kinds, Steps

LEMMA ConnectFits ==
  ASSUME NEW x \in Fitting, x.kind = "connect", NEW step \in Steps
  PROVE  [x EXCEPT !.at = step] \in Fitting
  BY DEF Fitting, Fits, Task

LEMMA UseFits ==
  ASSUME NEW x \in Fitting, x.at = "lock"
  PROVE  [x EXCEPT !.at = "use"] \in Fitting
  BY DEF Fitting, Fits, Task, Steps

LEMMA FailedFits ==
  ASSUME NEW x \in Fitting
  PROVE  [x EXCEPT !.at = "failed"] \in Fitting
  BY DEF Fitting, Fits, Task, Steps

LEMMA CreatedFits ==
  ASSUME NEW x \in Fitting, x.kind = "create"
  PROVE  [x EXCEPT !.at = "done"] \in Fitting
  BY DEF Fitting, Fits, Task, Steps

LEMMA KeyFits ==
  ASSUME NEW x \in Fitting, x.kind \in {"load", "create"}, NEW k \in Keypairs, NEW step \in Steps
  PROVE  [x EXCEPT !.at = step, !.key = k] \in Fitting
  BY DEF Fitting, Fits, Task

LEMMA OrphanFits ==
  ASSUME NEW x \in Fitting
  PROVE  [x EXCEPT !.orphan = TRUE] \in Fitting
  BY DEF Fitting, Fits, Task

LEMMA MovedFits ==
  ASSUME task \in [Tasks -> Fitting], NEW t \in Tasks, NEW x \in Fitting, Moved(t, x)
  PROVE  /\ task' \in [Tasks -> Fitting]
         /\ \A u \in Tasks : u # t => task'[u] = task[u]
         /\ task'[t] = x \/ task'[t] = Idle
  BY IdleFits DEF Moved

-----------------------------------------------------------------------------
LEMMA InitIInv == Init => IInv
  <1> SUFFICES ASSUME Init PROVE IInv
    OBVIOUS
  <1>1. SignalsOK
    BY DEF Init, SignalsOK, Statuses, View
  <1>2. task \in [Tasks -> Fitting]
    BY IdleFits DEF Init
  <1>3. NeverDroppedInUse /\ ConnectedHasCalculator
    BY DEF Init, NeverDroppedInUse, ConnectedHasCalculator, Idle
  <1> QED
    BY <1>1, <1>2, <1>3 DEF Init, IInv

\* A step that leaves the mutex alone, and puts no operation to use or out of
\* it, keeps NeverDroppedInUse.
LEMMA UseKept ==
  ASSUME IInv, UNCHANGED mutex,
         \A t \in Tasks : task'[t].at = "use" <=> task[t].at = "use"
  PROVE  NeverDroppedInUse'
  BY DEF IInv, SignalsOK, NeverDroppedInUse

\* A closure that ends gives the mutex back.
LEMMA UseEnds ==
  ASSUME IInv, NEW t \in Tasks, task[t].at = "use", mutex' = "none",
         NEW x \in Fitting, x.at \in {"done", "failed"}, Moved(t, x)
  PROVE  NeverDroppedInUse'
  <1>1. \A u \in Tasks : u # t => task'[u] = task[u] /\ task[u].at # "use"
    BY MovedFits DEF IInv, NeverDroppedInUse
  <1>2. task'[t].at # "use"
    BY MovedFits DEF IInv, Idle
  <1> QED
    BY <1>1, <1>2 DEF NeverDroppedInUse

LEMMA ConnectStep ==
  ASSUME IInv, NEW t \in Tasks,
         ClickConnect(t) \/ BeginConnect(t) \/ Open(t) \/ ConnectFails(t) \/ ConnectSucceeds(t)
  PROVE  IInv'
  <1> USE DEF IInv
  <1>1. CASE ClickConnect(t)
    <2>1. [Idle EXCEPT !.kind = "connect", !.at = "spawned", !.slot = "none"] \in Fitting
      BY DEF Idle, Fitting, Fits, Task, Kinds, Steps
    <2>2. task' \in [Tasks -> Fitting]
      BY <1>1, <2>1 DEF ClickConnect, Start
    <2>3. NeverDroppedInUse'
      BY <1>1, UseKept DEF ClickConnect, Start, Idle
    <2> QED
      BY <1>1, <2>2, <2>3 DEF ClickConnect, SignalsOK, ConnectedHasCalculator, signals
  <1>2. CASE BeginConnect(t)
    <2>1. task' \in [Tasks -> Fitting]
      BY <1>2, ConnectFits DEF BeginConnect, At, Steps
    <2>2. NeverDroppedInUse'
      BY <1>2, UseKept DEF BeginConnect, At
    <2> QED
      BY <1>2, <2>1, <2>2 DEF BeginConnect, SignalsOK, ConnectedHasCalculator, Statuses
  <1>3. CASE Open(t)
    <2>1. PICK outcome \in {"done", "failed"} : task' = [task EXCEPT ![t].at = outcome]
      BY <1>3 DEF Open
    <2>2. [task[t] EXCEPT !.at = outcome] \in Fitting
      BY <1>3, ConnectFits DEF Open, At, Steps
    <2>3. task' \in [Tasks -> Fitting]
      BY <2>1, <2>2
    <2>4. task'[t].at # "use" /\ task[t].at # "use" /\ \A u \in Tasks : u # t => task'[u] = task[u]
      BY <1>3, <2>1 DEF Open, At, Fitting, Task
    <2>5. NeverDroppedInUse'
      BY <1>3, <2>4, UseKept DEF Open
    <2> QED
      BY <1>3, <2>3, <2>5 DEF Open, SignalsOK, ConnectedHasCalculator, signals
  <1>4. CASE ConnectFails(t)
    <2>1. task' \in [Tasks -> Fitting]
      BY <1>4, IdleFits DEF ConnectFails, Resume
    <2>2. NeverDroppedInUse'
      BY <1>4, UseKept DEF ConnectFails, Resume, At, Idle
    <2> QED
      BY <1>4, <2>1, <2>2 DEF ConnectFails, SignalsOK, ConnectedHasCalculator, Statuses
  <1>5. CASE ConnectSucceeds(t)
    BY <1>5 DEF ConnectSucceeds, SignalsOK, NeverDroppedInUse, ConnectedHasCalculator, signals
  <1> QED
    BY <1>1, <1>2, <1>3, <1>4, <1>5

LEMMA HandleStep == ASSUME IInv, Install \/ ClickDisconnect \/ Disconnect \/ Render PROVE IInv'
  <1> USE DEF IInv
  <1>1. CASE Install
    <2>1. task' \in [Tasks -> Fitting]
      BY <1>1, IdleFits DEF Install
    <2>2. NeverDroppedInUse'
      BY <1>1 DEF Install, NeverDroppedInUse, Idle
    <2> QED
      BY <1>1, <2>1, <2>2 DEF Install, SignalsOK, ConnectedHasCalculator, Statuses
  <1>2. CASE ClickDisconnect
    BY <1>2 DEF ClickDisconnect, SignalsOK, NeverDroppedInUse, ConnectedHasCalculator, signals
  <1>3. CASE Disconnect
    BY <1>3 DEF Disconnect, SignalsOK, NeverDroppedInUse, ConnectedHasCalculator, Statuses
  <1>4. CASE Render
    BY <1>4 DEF Render, View, SignalsOK, NeverDroppedInUse, ConnectedHasCalculator, signals
  <1> QED
    BY <1>1, <1>2, <1>3, <1>4

LEMMA MenuStep ==
  ASSUME IInv, NEW t \in Tasks, NEW s \in Slots, ClickSlot(t, s) \/ ClickCreate(t, s)
  PROVE  IInv'
  <1> USE DEF IInv
  <1>1. task' \in [Tasks -> Fitting]
    BY StartFits DEF ClickSlot, ClickCreate, Start
  <1>2. \A u \in Tasks : task'[u].at = "use" <=> task[u].at = "use"
    <2>1. PICK kind \in {"load", "create"}, step \in {"lock", "generate"} : Start(t, kind, step, s)
      BY DEF ClickSlot, ClickCreate
    <2>2. task'[t].at = step /\ task[t].at = "none" /\ \A u \in Tasks : u # t => task'[u] = task[u]
      BY <2>1 DEF Start, Idle
    <2> QED
      BY <2>2
  <1>3. NeverDroppedInUse'
    BY <1>2, UseKept DEF ClickSlot, ClickCreate
  <1> QED
    BY <1>1, <1>3 DEF ClickSlot, ClickCreate, SignalsOK, ConnectedHasCalculator

LEMMA GenerateStep == ASSUME IInv, NEW t \in Tasks, Generate(t) PROVE IInv'
  <1> USE DEF IInv
  <1>1. PICK x \in Fitting : Moved(t, x) /\ x.at # "use"
    <2>1. CASE Moved(t, [task[t] EXCEPT !.at = "failed"])
      BY <2>1, FailedFits DEF Fitting, Task
    <2>2. CASE \E k \in Fresh : Moved(t, [task[t] EXCEPT !.at = "lock", !.key = k])
      <3>1. PICK k \in Fresh : Moved(t, [task[t] EXCEPT !.at = "lock", !.key = k])
        BY <2>2
      <3>2. k \in Keypairs /\ "lock" \in Steps
        BY DEF Fresh, Steps
      <3>3. [task[t] EXCEPT !.at = "lock", !.key = k] \in Fitting
        BY <3>2, KeyFits DEF Generate, At
      <3>4. [task[t] EXCEPT !.at = "lock", !.key = k].at # "use"
        BY DEF Fitting, Task
      <3> QED
        BY <3>1, <3>3, <3>4
    <2> QED
      BY <2>1, <2>2 DEF Generate
  <1>2. task' \in [Tasks -> Fitting]
    BY <1>1, MovedFits
  <1>3. NeverDroppedInUse'
    <2>1. \A u \in Tasks : u # t => task'[u] = task[u]
      BY <1>1, MovedFits
    <2>2. task'[t] = x \/ task'[t] = Idle
      BY <1>1, MovedFits
    <2>3. task'[t].at # "use"
      BY ONLY <1>1, <2>2 DEF Idle
    <2>4. task[t].at # "use"
      BY DEF Generate, At
    <2> QED
      BY <2>1, <2>3, <2>4, UseKept DEF Generate
  <1> QED
    BY <1>2, <1>3 DEF Generate, SignalsOK, ConnectedHasCalculator, signals

LEMMA TakeStep == ASSUME IInv, NEW t \in Tasks, TakeCalculator(t) PROVE IInv'
  <1> USE DEF IInv
  <1>1. task' \in [Tasks -> Fitting]
    BY UseFits DEF TakeCalculator
  <1>2. \A u \in Tasks : task'[u].at = "use" <=> u = t
    <2>1. task'[t].at = "use"
      BY DEF TakeCalculator, Fitting, Task
    <2>2. \A u \in Tasks : u # t => task'[u] = task[u] /\ task[u].at # "use"
      BY DEF TakeCalculator, NeverDroppedInUse
    <2> QED
      BY <2>1, <2>2
  <1>3. NeverDroppedInUse'
    BY <1>2 DEF TakeCalculator, NeverDroppedInUse
  <1> QED
    BY <1>1, <1>3 DEF TakeCalculator, SignalsOK, ConnectedHasCalculator, signals

LEMMA UseStep ==
  ASSUME IInv, NEW t \in Tasks, FindNone(t) \/ FetchKeypair(t) \/ StoreKeypair(t)
  PROVE  IInv'
  <1> USE DEF IInv
  <1>1. task[t] \in Fitting /\ task[t].at = "use" /\ mutex' = "none"
    BY DEF FindNone, FetchKeypair, StoreKeypair, At
  <1>2. PICK x \in Fitting : Moved(t, x) /\ x.at \in {"done", "failed"}
    <2>1. ASSUME Moved(t, [task[t] EXCEPT !.at = "failed"])
          PROVE  \E x \in Fitting : Moved(t, x) /\ x.at \in {"done", "failed"}
      BY <1>1, <2>1, FailedFits DEF Fitting, Task
    <2>2. CASE FetchKeypair(t)
      <3>1. ASSUME store[task[t].slot] \in Keypairs,
                   Moved(t, [task[t] EXCEPT !.at = "done", !.key = store[task[t].slot]])
            PROVE  \E x \in Fitting : Moved(t, x) /\ x.at \in {"done", "failed"}
        <4>1. "done" \in Steps /\ task[t].kind = "load"
          BY <2>2 DEF Steps, FetchKeypair, At
        <4>2. [task[t] EXCEPT !.at = "done", !.key = store[task[t].slot]] \in Fitting
          BY <1>1, <3>1, <4>1, KeyFits
        <4>3. [task[t] EXCEPT !.at = "done", !.key = store[task[t].slot]].at = "done"
          BY <1>1 DEF Fitting, Task
        <4> QED
          BY <3>1, <4>2, <4>3
      <3> QED
        BY <2>1, <2>2, <3>1 DEF FetchKeypair
    <2>3. CASE StoreKeypair(t)
      <3>1. PICK outcome \in {"done", "failed"} : Moved(t, [task[t] EXCEPT !.at = outcome])
        BY <2>3 DEF StoreKeypair
      <3>2. [task[t] EXCEPT !.at = outcome] \in Fitting
        BY <1>1, <2>3, FailedFits, CreatedFits DEF StoreKeypair, At
      <3>3. [task[t] EXCEPT !.at = outcome].at = outcome
        BY <1>1 DEF Fitting, Task
      <3> QED
        BY <3>1, <3>2, <3>3
    <2> QED
      BY <2>1, <2>2, <2>3 DEF FindNone
  <1>3. task' \in [Tasks -> Fitting]
    BY <1>2, MovedFits
  <1>4. NeverDroppedInUse'
    BY <1>1, <1>2, UseEnds
  <1>5. store' \in [Slots -> Contents]
    <2>1. CASE StoreKeypair(t)
      <3>1. task[t].slot \in Slots /\ task[t].key \in Keypairs
        BY <1>1, <2>1 DEF StoreKeypair, At, Fitting, Fits
      <3>2. PICK content \in {store[task[t].slot], task[t].key, "missing"} :
               store' = [store EXCEPT ![task[t].slot] = content]
        BY <2>1 DEF StoreKeypair
      <3>3. content \in Contents
        BY <3>1 DEF Contents
      <3> QED
        BY <3>2, <3>3
    <2> QED
      BY <2>1 DEF FindNone, FetchKeypair
  <1>6. SignalsOK' /\ ConnectedHasCalculator'
    BY DEF FindNone, FetchKeypair, StoreKeypair, SignalsOK, ConnectedHasCalculator, signals
  <1> QED
    BY <1>3, <1>4, <1>5, <1>6

LEMMA ShowStep ==
  ASSUME IInv, NEW t \in Tasks, ShowLoaded(t) \/ ShowEmptySlot(t) \/ ShowCreated(t)
  PROVE  IInv'
  <1> USE DEF IInv
  <1>1. task' \in [Tasks -> Fitting]
    BY IdleFits DEF ShowLoaded, ShowEmptySlot, ShowCreated, Resume
  <1>2. NeverDroppedInUse'
    BY UseKept DEF ShowLoaded, ShowEmptySlot, ShowCreated, Resume, At, Idle
  <1>3. loaded' \in Loaded \cup {Nothing}
    <2>1. CASE ShowLoaded(t)
      <3>1. task[t].slot \in Slots /\ task[t].key \in Keypairs
        BY <2>1 DEF ShowLoaded, Resume, At, Fitting, Fits
      <3> QED
        BY <2>1, <3>1 DEF ShowLoaded, Loaded
    <2> QED
      BY <2>1 DEF ShowEmptySlot, ShowCreated, SignalsOK
  <1> QED
    BY <1>1, <1>2, <1>3 DEF ShowLoaded, ShowEmptySlot, ShowCreated, SignalsOK, ConnectedHasCalculator

LEMMA PageStep == ASSUME IInv, OpenCreatePage \/ LeaveCreatePage PROVE IInv'
  <1> USE DEF IInv
  <1>1. SignalsOK' /\ ConnectedHasCalculator'
    BY DEF OpenCreatePage, LeaveCreatePage, SignalsOK, ConnectedHasCalculator
  <1>2. CASE OpenCreatePage
    BY <1>1, <1>2 DEF OpenCreatePage, NeverDroppedInUse
  <1>3. CASE LeaveCreatePage
    <2>1. task' \in [Tasks -> Fitting]
      BY <1>3, IdleFits, OrphanFits DEF LeaveCreatePage
    <2>2. \A t \in Tasks : task'[t].at = "use" <=> task[t].at = "use"
      <3> SUFFICES ASSUME NEW t \in Tasks PROVE task'[t].at = "use" <=> task[t].at = "use"
        OBVIOUS
      <3>1. [task[t] EXCEPT !.orphan = TRUE].at = task[t].at
        BY DEF Fitting, Task
      <3> QED
        BY <1>3, <3>1 DEF LeaveCreatePage, Idle
    <2>3. NeverDroppedInUse'
      BY <1>3, <2>2, UseKept DEF LeaveCreatePage
    <2> QED
      BY <1>1, <1>3, <2>1, <2>3 DEF LeaveCreatePage
  <1> QED
    BY <1>2, <1>3

LEMMA NextIInv == IInv /\ [Next]_vars => IInv'
  <1> SUFFICES ASSUME IInv, [Next]_vars PROVE IInv'
    OBVIOUS
  <1>1. CASE UNCHANGED vars
    BY <1>1 DEF vars, signals, IInv, SignalsOK, NeverDroppedInUse, ConnectedHasCalculator
  <1>2. CASE User
    BY <1>2, HandleStep, PageStep, ConnectStep, MenuStep DEF User
  <1>3. CASE UiThread
    BY <1>3, HandleStep, ConnectStep, ShowStep DEF UiThread
  <1>4. ASSUME NEW t \in Tasks, Closure(t) PROVE IInv'
    BY <1>4, ConnectStep, GenerateStep, TakeStep, UseStep DEF Closure
  <1> QED
    BY <1>1, <1>2, <1>3, <1>4 DEF Next

LEMMA IInvariant == Spec => []IInv
  BY InitIInv, NextIInv, PTL DEF Spec

-----------------------------------------------------------------------------
\* Every variable keeps its type: a keypair shown comes from a slot, and what
\* is stored is a keypair.
THEOREM TypeCorrect == Spec => []TypeOK
  <1>1. IInv => TypeOK
    BY DEF IInv, SignalsOK, TypeOK, Fitting
  <1> QED
    BY IInvariant, <1>1, PTL

\* One closure at most uses the calculator, and it is the one that holds the
\* mutex of SharedCalculator.
THEOREM ExclusiveUse == Spec => []NeverDroppedInUse
  <1>1. IInv => NeverDroppedInUse
    BY DEF IInv
  <1> QED
    BY IInvariant, <1>1, PTL

\* While a closure uses it, the Calculator is neither dropped by Disconnect
\* nor replaced by a connection that succeeds late.
THEOREM SteadyHandle == Spec => HandleIsSteady
  <1>1. IInv /\ [Next]_vars => [mutex # "none" => handle' = handle]_vars
    <2> SUFFICES ASSUME Next, mutex # "none" PROVE handle' = handle
      OBVIOUS
    <2>1. CASE User
      BY <2>1 DEF User, ClickDisconnect, OpenCreatePage, LeaveCreatePage, ClickConnect,
                  ClickSlot, ClickCreate
    <2>2. CASE UiThread
      BY <2>2 DEF UiThread, Install, Disconnect, Render, BeginConnect, ConnectFails,
                  ConnectSucceeds, ShowLoaded, ShowEmptySlot, ShowCreated
    <2>3. ASSUME NEW t \in Tasks, Closure(t) PROVE handle' = handle
      BY <2>3 DEF Closure, Open, Generate, TakeCalculator, FindNone, FetchKeypair, StoreKeypair
    <2> QED
      BY <2>1, <2>2, <2>3 DEF Next
  <1> QED
    BY IInvariant, <1>1, PTL DEF Spec, HandleIsSteady

\* A window that says Connected has a calculator behind it.
THEOREM ConnectedIsTrue == Spec => []ConnectedHasCalculator
  <1>1. IInv => ConnectedHasCalculator
    BY DEF IInv
  <1> QED
    BY IInvariant, <1>1, PTL
=============================================================================
