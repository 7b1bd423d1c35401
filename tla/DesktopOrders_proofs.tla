------------------------- MODULE DesktopOrders_proofs -------------------------
(***************************************************************************)
(* For any keypairs, orders, number of operations at once and rounds of    *)
(* polling: one request is on the way at a time, and what the window says  *)
(* of an order is what Transfer allows, as long as being executed is all   *)
(* that "confirmed" claims.                                                *)
(***************************************************************************)
EXTENDS DesktopOrders, TLAPS

USE PollsAssumption, NoneAssumption

-----------------------------------------------------------------------------
(* The inductive invariant. An operation that is past its request knows    *)
(* its order from the user's click on; nobody else serves that order, also *)
(* when the page is gone and another operation runs.                       *)

Serving == {"failed", "signed", "aborted", "asleep", "lockAgain", "status", "undecided",
            "noStatus", "confirmed"}
StepsOf(kind) ==
    CASE kind = "balance" -> {"lock", "getBalance", "fetched", "noBalance"}
      [] kind = "airdrop" -> {"lock", "request"} \cup Serving
      [] kind = "send" -> {"decrypt", "lock", "blockhash", "submit"} \cup Serving
      [] OTHER -> {"none"}

Fits(x) ==
    /\ x.at \in StepsOf(x.kind)
    /\ x.order \in Orders <=> x.kind \in OrderPages

Fitting == {x \in Task : Fits(x)}

BeforeReach == {"decrypt", "lock", "blockhash", "submit", "request", "aborted"}
Approved == BeforeReach \cup {"failed", "signed"}

\* What the user was told of an operation's order, and where the order is.
Matches(x) ==
    x.order \in Orders =>
        /\ told[x.order] = IF x.at \in Approved THEN "approved" ELSE "submitted"
        /\ x.at \in BeforeReach => chain[x.order] = "none"
        /\ x.at = "confirmed" => chain[x.order] \in {"ok", "failed"}

WindowOK ==
    /\ page \in Pages
    /\ loaded \in Keypairs \cup {"none"} /\ balance \in Keypairs \cup {"none"}
    /\ effect \in BOOLEAN /\ busy \in BOOLEAN /\ drawn \in BOOLEAN
    /\ client \in BOOLEAN /\ mutex \in Tasks \cup {"none"}

TypeInv ==
    /\ WindowOK
    /\ task \in [Tasks -> Fitting]
    /\ told \in [Orders -> Told]
    /\ chain \in [Orders -> Chain]

MutexInv == \A t \in Tasks : task[t].at \in Calling <=> mutex = t

OrderInv ==
    /\ \A t \in Tasks : Matches(task[t])
    /\ \A t, u \in Tasks : task[t].order \in Orders /\ task[t].order = task[u].order => t = u
    /\ \A o \in Orders : told[o] \in {"nothing", "aborted"} => chain[o] = "none"

\* A continuation runs on its own page, and the balance page's effect too.
PageInv ==
    /\ effect => page = "balance"
    /\ \A t \in Tasks :
          /\ task[t].at \in Resuming => ~task[t].orphan
          /\ task[t].at # "none" /\ ~task[t].orphan => task[t].kind = page

IInv == TypeInv /\ MutexInv /\ OrderInv /\ PageInv

-----------------------------------------------------------------------------
(* What a step does to the operation that takes it. *)

AllSteps == {"none"} \cup Waiting \cup Calling \cup Resuming

LEMMA IdleFits == Idle \in Fitting /\ Idle.order = "none" /\ Idle.at = "none"
  BY DEF Idle, Fitting, Fits, Task, StepsOf, Pages, OrderPages

LEMMA StepFits ==
  ASSUME NEW x \in Fitting, NEW step \in StepsOf(x.kind)
  PROVE  [x EXCEPT !.at = step] \in Fitting
  <1>1. step \in AllSteps
    BY DEF StepsOf, Serving, AllSteps, Waiting, Calling, Resuming
  <1>2. [x EXCEPT !.at = step] \in Task
    BY <1>1 DEF Fitting, Task, AllSteps
  <1>3. [x EXCEPT !.at = step].at = step /\ [x EXCEPT !.at = step].kind = x.kind
        /\ [x EXCEPT !.at = step].order = x.order
    BY DEF Fitting, Task
  <1>4. Fits(x)
    BY DEF Fitting
  <1>5. Fits([x EXCEPT !.at = step])
    BY <1>3, <1>4 DEF Fits
  <1> QED
    BY <1>2, <1>5 DEF Fitting

\* Where an operation is tells what kind it is.
LEMMA KindOfStep ==
  ASSUME NEW x \in Fitting
  PROVE  /\ x.at \in {"getBalance", "fetched", "noBalance"} => x.kind = "balance"
         /\ x.at \in {"decrypt", "blockhash", "submit"} => x.kind = "send"
         /\ x.at = "request" => x.kind = "airdrop"
         /\ x.at = "lock" => x.kind \in {"balance", "airdrop", "send"}
         /\ x.at \in Serving => x.kind \in OrderPages
         /\ x.at = "none" => x.kind = "other"
         /\ x.order \in Orders <=> x.kind \in OrderPages
         /\ x.kind \in Pages /\ x.order \in Orders \cup {"none"}
  <1>1. Fits(x) /\ x.kind \in Pages /\ x.order \in Orders \cup {"none"}
    BY DEF Fitting, Task
  <1> QED
    BY <1>1 DEF Fits, StepsOf, Serving, OrderPages, Pages

Similar(x, y) == x.kind = y.kind /\ x.orphan = y.orphan

LEMMA Moves ==
  ASSUME task \in [Tasks -> Fitting], NEW t \in Tasks, NEW step \in StepsOf(task[t].kind),
         Goto(t, step)
  PROVE  /\ task' \in [Tasks -> Fitting]
         /\ \A u \in Tasks : u # t => task'[u] = task[u]
         /\ \/ /\ task'[t].at = step /\ task'[t].order = task[t].order
               /\ Similar(task'[t], task[t])
               /\ step \in Resuming => ~task[t].orphan
            \/ task'[t] = Idle /\ step \in Resuming
  <1>1. [task[t] EXCEPT !.at = step] \in Fitting
    BY StepFits
  <1>2. /\ [task[t] EXCEPT !.at = step].at = step
        /\ [task[t] EXCEPT !.at = step].order = task[t].order
        /\ Similar([task[t] EXCEPT !.at = step], task[t])
    BY DEF Fitting, Task, Similar
  <1>3. task'[t] = IF task[t].orphan /\ step \in Resuming THEN Idle ELSE [task[t] EXCEPT !.at = step]
    BY DEF Goto
  <1>4. task' \in [Tasks -> Fitting]
    BY <1>1, IdleFits DEF Goto
  <1>5. \A u \in Tasks : u # t => task'[u] = task[u]
    BY DEF Goto
  <1> QED
    BY <1>2, <1>3, <1>4, <1>5

LEMMA Ends ==
  ASSUME task \in [Tasks -> Fitting], NEW t \in Tasks, EndTask(t)
  PROVE  /\ task' \in [Tasks -> Fitting]
         /\ \A u \in Tasks : u # t => task'[u] = task[u]
         /\ task'[t] = Idle
  BY IdleFits DEF EndTask

\* An operation that was under way stays on its page, or ends.
LEMMA PageKept ==
  ASSUME PageInv, NEW t \in Tasks,
         \A u \in Tasks : u # t => task'[u] = task[u],
         \/ task'[t] = Idle
         \/ /\ task[t].at # "none" /\ Similar(task'[t], task[t])
            /\ task'[t].at \in Resuming => ~task[t].orphan,
         UNCHANGED page, effect' => page = "balance"
  PROVE  PageInv'
  <1>1. ASSUME NEW u \in Tasks
        PROVE  /\ task'[u].at \in Resuming => ~task'[u].orphan
               /\ task'[u].at # "none" /\ ~task'[u].orphan => task'[u].kind = page
    <2>1. CASE u # t
      BY <2>1 DEF PageInv
    <2>2. CASE u = t /\ task'[t] = Idle
      BY <2>2 DEF Idle, Resuming
    <2>3. CASE u = t /\ task[t].at # "none" /\ Similar(task'[t], task[t])
               /\ (task'[t].at \in Resuming => ~task[t].orphan)
      BY <2>3 DEF PageInv, Similar
    <2> QED
      BY <2>1, <2>2, <2>3
  <1> QED
    BY <1>1 DEF PageInv

LEMMA MutexKept ==
  ASSUME TypeInv, MutexInv, NEW t \in Tasks,
         \A u \in Tasks : u # t => task'[u] = task[u],
         task'[t].at \in Calling <=> mutex' = t,
         mutex' # mutex => {mutex, mutex'} = {t, "none"}
  PROVE  MutexInv'
  <1> SUFFICES ASSUME NEW u \in Tasks PROVE task'[u].at \in Calling <=> mutex' = u
    BY DEF MutexInv
  <1>1. CASE u = t
    BY <1>1
  <1>2. CASE u # t
    <2>1. task'[u].at = task[u].at /\ (task[u].at \in Calling <=> mutex = u)
      BY <1>2 DEF MutexInv
    <2>2. mutex = u <=> mutex' = u
      BY <1>2
    <2> QED
      BY <2>1, <2>2
  <1> QED
    BY <1>1, <1>2

\* The operation goes on to `step' and what is true of its order there holds.
LEMMA ServeKept ==
  ASSUME TypeInv, OrderInv, NEW t \in Tasks, NEW step,
         \A u \in Tasks : u # t => task'[u] = task[u],
         \/ task'[t].at = step /\ task'[t].order = task[t].order
         \/ task'[t] = Idle,
         \A o \in Orders : o # task[t].order => told'[o] = told[o] /\ chain'[o] = chain[o],
         task[t].order \in Orders =>
            /\ told'[task[t].order] = IF step \in Approved THEN "approved" ELSE "submitted"
            /\ step \in BeforeReach => chain'[task[t].order] = "none"
            /\ step = "confirmed" => chain'[task[t].order] \in {"ok", "failed"}
  PROVE  OrderInv'
  <1>1. task'[t].order \in Orders => task'[t].order = task[t].order /\ task'[t].at = step
    BY IdleFits
  <1>2. \A u \in Tasks : u # t /\ task[u].order \in Orders => task[u].order # task[t].order
    BY DEF OrderInv
  <1>3. \A u \in Tasks : Matches(task[u])'
    <2> SUFFICES ASSUME NEW u \in Tasks PROVE Matches(task[u])'
      OBVIOUS
    <2>1. CASE u = t
      BY <1>1, <2>1 DEF Matches
    <2>2. CASE u # t
      <3>1. Matches(task[u]) /\ task'[u] = task[u]
        BY <2>2 DEF OrderInv
      <3> QED
        BY <1>2, <2>2, <3>1 DEF Matches
    <2> QED
      BY <2>1, <2>2
  <1>4. \A u, v \in Tasks : task'[u].order \in Orders /\ task'[u].order = task'[v].order => u = v
    <2>1. \A u \in Tasks : task'[u].order \in Orders => task'[u].order = task[u].order
      BY <1>1
    <2> QED
      BY <2>1 DEF OrderInv
  <1>5. \A o \in Orders : told'[o] \in {"nothing", "aborted"} => chain'[o] = "none"
    <2> SUFFICES ASSUME NEW o \in Orders, told'[o] \in {"nothing", "aborted"} PROVE chain'[o] = "none"
      OBVIOUS
    <2>1. o # task[t].order
      OBVIOUS
    <2> QED
      BY <2>1 DEF OrderInv
  <1> QED
    BY <1>3, <1>4, <1>5 DEF OrderInv

\* The operation is over; its order may have an answer.
LEMMA EndKept ==
  ASSUME TypeInv, OrderInv, NEW t \in Tasks,
         \A u \in Tasks : u # t => task'[u] = task[u],
         task'[t] = Idle, UNCHANGED chain,
         \A o \in Orders : o # task[t].order => told'[o] = told[o],
         task[t].order \in Orders /\ told'[task[t].order] \in {"nothing", "aborted"}
            => chain[task[t].order] = "none"
  PROVE  OrderInv'
  <1>1. task'[t].order \notin Orders
    BY IdleFits
  <1>2. \A u \in Tasks : u # t /\ task[u].order \in Orders => task[u].order # task[t].order
    BY DEF OrderInv
  <1>3. \A u \in Tasks : Matches(task[u])'
    <2> SUFFICES ASSUME NEW u \in Tasks PROVE Matches(task[u])'
      OBVIOUS
    <2>1. CASE u = t
      BY <1>1, <2>1 DEF Matches
    <2>2. CASE u # t
      <3>1. Matches(task[u]) /\ task'[u] = task[u]
        BY <2>2 DEF OrderInv
      <3> QED
        BY <1>2, <2>2, <3>1 DEF Matches
    <2> QED
      BY <2>1, <2>2
  <1>4. \A u, v \in Tasks : task'[u].order \in Orders /\ task'[u].order = task'[v].order => u = v
    BY <1>1 DEF OrderInv
  <1>5. \A o \in Orders : told'[o] \in {"nothing", "aborted"} => chain'[o] = "none"
    BY DEF OrderInv
  <1> QED
    BY <1>3, <1>4, <1>5 DEF OrderInv

-----------------------------------------------------------------------------
(* One lemma for each action or group of actions. *)

LEMMA InitIInv == Init => IInv
  <1> SUFFICES ASSUME Init PROVE IInv
    OBVIOUS
  <1>1. WindowOK
    BY DEF Init, WindowOK, Pages
  <1>2. task \in [Tasks -> Fitting] /\ \A t \in Tasks : task[t].order = "none" /\ task[t].at = "none"
    BY IdleFits DEF Init
  <1>p. PageInv
    BY <1>2 DEF Init, PageInv, Resuming
  <1>3. told \in [Orders -> Told] /\ chain \in [Orders -> Chain]
    BY DEF Init, Told, Chain
  <1>4. MutexInv
    BY <1>2 DEF Init, MutexInv, Calling
  <1>5. OrderInv
    BY <1>2 DEF Init, OrderInv, Matches
  <1> QED
    BY <1>1, <1>2, <1>3, <1>4, <1>5, <1>p DEF IInv, TypeInv

\* Nothing of a task, an order or the mutex changes.
LEMMA WindowKept ==
  ASSUME IInv, UNCHANGED <<page, task, told, chain, mutex>>, WindowOK', effect' => page = "balance"
  PROVE  IInv'
  BY DEF IInv, TypeInv, MutexInv, OrderInv, Matches, PageInv

LEMMA GoToStep == ASSUME IInv, NEW p \in Pages, GoTo(p) PROVE IInv'
  <1>0. TypeInv /\ MutexInv /\ OrderInv
    BY DEF IInv
  <1>1. WindowOK'
    BY <1>0 DEF TypeInv, WindowOK, GoTo
  <1>p. PageInv'
    <2> SUFFICES ASSUME NEW t \in Tasks
                 PROVE  /\ task'[t].at \in Resuming => ~task'[t].orphan
                        /\ task'[t].at # "none" /\ ~task'[t].orphan => task'[t].kind = page'
      BY DEF PageInv, GoTo
    <2>1. CASE task[t].at \in {"none"} \cup Resuming
      <3>1. task'[t] = Idle
        BY <2>1 DEF GoTo
      <3> QED
        BY <3>1 DEF Idle, Resuming
    <2>2. CASE task[t].at \notin {"none"} \cup Resuming
      <3>1. task'[t] = [task[t] EXCEPT !.orphan = TRUE]
        BY <2>2 DEF GoTo
      <3>2. task'[t].orphan = TRUE /\ task'[t].at = task[t].at
        BY <1>0, <3>1 DEF TypeInv, Fitting, Task
      <3> QED
        BY <2>2, <3>2
    <2> QED
      BY <2>1, <2>2
  <1>2. ASSUME NEW t \in Tasks
        PROVE  /\ task'[t] \in Fitting
               /\ task'[t].order \in {task[t].order, "none"}
               /\ task'[t].at \in {task[t].at, "none"}
               /\ task[t].at \in Calling => task'[t].at = task[t].at
               /\ task'[t].order \in Orders => task'[t].at = task[t].at /\ task'[t].order = task[t].order
    <2>1. task[t] \in Fitting
      BY <1>0 DEF TypeInv
    <2>2. [task[t] EXCEPT !.orphan = TRUE].at = task[t].at
          /\ [task[t] EXCEPT !.orphan = TRUE].kind = task[t].kind
          /\ [task[t] EXCEPT !.orphan = TRUE].order = task[t].order
          /\ [task[t] EXCEPT !.orphan = TRUE] \in Task
      BY <2>1 DEF Fitting, Task
    <2>3. [task[t] EXCEPT !.orphan = TRUE] \in Fitting
      BY <2>1, <2>2 DEF Fitting, Fits
    <2>4. task'[t] = IF task[t].at \in {"none"} \cup Resuming THEN Idle
                     ELSE [task[t] EXCEPT !.orphan = TRUE]
      BY DEF GoTo
    <2>5. CASE task[t].at \in {"none"} \cup Resuming
      BY <2>4, <2>5, IdleFits DEF Calling, Resuming
    <2>6. CASE task[t].at \notin {"none"} \cup Resuming
      BY <2>2, <2>3, <2>4, <2>6
    <2> QED
      BY <2>5, <2>6
  <1>3. task' \in [Tasks -> Fitting]
    BY <1>2 DEF GoTo
  <1>4. MutexInv'
    BY <1>0, <1>2 DEF MutexInv, GoTo, Calling
  <1>5. OrderInv'
    <2>1. \A t \in Tasks : Matches(task[t])'
      <3> SUFFICES ASSUME NEW t \in Tasks PROVE Matches(task[t])'
        OBVIOUS
      <3>1. Matches(task[t]) /\ UNCHANGED <<told, chain>>
        BY <1>0 DEF OrderInv, GoTo
      <3>2. task'[t].order \in Orders => task'[t].at = task[t].at /\ task'[t].order = task[t].order
        BY <1>2
      <3> QED
        BY <3>1, <3>2 DEF Matches
    <2>2. \A t, u \in Tasks : task'[t].order \in Orders /\ task'[t].order = task'[u].order => t = u
      BY <1>0, <1>2 DEF OrderInv
    <2> QED
      BY <1>0, <2>1, <2>2 DEF OrderInv, GoTo
  <1> QED
    BY <1>0, <1>1, <1>3, <1>4, <1>5, <1>p DEF IInv, TypeInv, GoTo

Begun(step, o) == [Idle EXCEPT !.kind = page, !.at = step, !.key = loaded, !.order = o]

LEMMA BegunTyped ==
  ASSUME TypeInv, NEW step \in Waiting, NEW o \in Orders \cup {"none"}
  PROVE  /\ Begun(step, o) \in Task
         /\ Begun(step, o).kind = page /\ Begun(step, o).at = step /\ Begun(step, o).order = o
  <1>1. ASSUME NEW x \in Task
        PROVE  LET new == [x EXCEPT !.kind = page, !.at = step, !.key = loaded, !.order = o]
               IN  /\ new \in Task
                   /\ new.kind = page /\ new.at = step /\ new.order = o
    BY DEF Task, TypeInv, WindowOK
  <1>2. Idle \in Task
    BY IdleFits DEF Fitting
  <1> QED
    BY <1>1, <1>2 DEF Begun

\* A new operation, for an order that was just asked for or for none.
LEMMA StartStep ==
  ASSUME IInv, NEW step, NEW o \in Orders \cup {"none"}, Start(step, o),
         step \in StepsOf(page), step \in {"lock", "decrypt"},
         o \in Orders <=> page \in OrderPages,
         o \in Orders => told[o] = "nothing" /\ told' = [told EXCEPT ![o] = "approved"],
         o \notin Orders => UNCHANGED told,
         WindowOK', effect' => page = "balance", UNCHANGED <<page, chain, mutex>>
  PROVE  IInv'
  <1>0. TypeInv /\ MutexInv /\ OrderInv
    BY DEF IInv
  <1>1. PICK t \in Tasks :
           /\ Free(t)
           /\ task' = [task EXCEPT ![t] = Begun(step, o)]
    BY DEF Start, Begun
  <1> DEFINE new == Begun(step, o)
  <1>2. new.kind = page /\ new.at = step /\ new.order = o /\ new \in Task
    BY <1>0, BegunTyped DEF Waiting
  <1>3. new \in Fitting
    BY <1>2 DEF Fitting, Fits
  <1>4. task'[t] = new /\ \A u \in Tasks : u # t => task'[u] = task[u]
    BY <1>0, <1>1 DEF TypeInv
  <1>5. task[t].order = "none" /\ task[t].at = "none"
    BY <1>1, IdleFits DEF Free
  <1> HIDE DEF new
  <1>6. TypeInv'
    <2>1. task' \in [Tasks -> Fitting]
      BY <1>0, <1>1, <1>3 DEF TypeInv, new
    <2>2. told' \in [Orders -> Told]
      BY <1>0 DEF TypeInv, Told
    <2> QED
      BY <1>0, <2>1, <2>2 DEF TypeInv
  <1>p. PageInv'
    <2>1. task'[t].at \notin Resuming /\ task'[t].kind = page
      BY <1>2, <1>4 DEF Resuming
    <2> QED
      BY <1>4, <2>1 DEF IInv, PageInv
  <1>7. MutexInv'
    <2>1. task'[t].at \notin Calling /\ task[t].at \notin Calling
      BY <1>2, <1>4, <1>5 DEF Calling
    <2>2. mutex # t
      BY <1>0, <2>1 DEF MutexInv
    <2> QED
      BY <1>0, <1>4, <2>1, <2>2, MutexKept
  <1>8. OrderInv'
    <2>1. \A u \in Tasks : u # t /\ task[u].order \in Orders => task[u].order # o
      BY <1>0 DEF OrderInv, Matches
    <2>2. \A u \in Tasks : Matches(task[u])'
      <3> SUFFICES ASSUME NEW u \in Tasks PROVE Matches(task[u])'
        OBVIOUS
      <3>1. CASE u = t
        <4>1. step \in Approved /\ step \in BeforeReach /\ step # "confirmed"
          BY DEF Approved, BeforeReach
        <4>2. o \in Orders => told'[o] = "approved" /\ chain'[o] = "none"
          BY <1>0 DEF TypeInv, OrderInv
        <4> QED
          BY <1>2, <1>4, <3>1, <4>1, <4>2 DEF Matches
      <3>2. CASE u # t
        <4>1. Matches(task[u]) /\ task'[u] = task[u]
          BY <1>0, <1>4, <3>2 DEF OrderInv
        <4>2. task[u].order \in Orders => told'[task[u].order] = told[task[u].order]
          BY <1>0, <2>1, <3>2 DEF TypeInv
        <4> QED
          BY <4>1, <4>2 DEF Matches
      <3> QED
        BY <3>1, <3>2
    <2>3. \A u, v \in Tasks : task'[u].order \in Orders /\ task'[u].order = task'[v].order => u = v
      <3>1. task'[t].order = o
        BY <1>2, <1>4
      <3> QED
        BY <1>0, <1>4, <2>1, <3>1 DEF OrderInv
    <2>4. \A p \in Orders : told'[p] \in {"nothing", "aborted"} => chain'[p] = "none"
      BY <1>0 DEF TypeInv, OrderInv
    <2> QED
      BY <2>2, <2>3, <2>4 DEF OrderInv
  <1> QED
    BY <1>6, <1>7, <1>8, <1>p DEF IInv

LEMMA FetchStep ==
  ASSUME IInv, RunEffect \/ ClickRefresh
  PROVE  IInv'
  <1>0. TypeInv
    BY DEF IInv
  <1>1. WindowOK'
    BY <1>0 DEF TypeInv, WindowOK, RunEffect, ClickRefresh, FetchBalance
  <1>p. effect' => page = "balance"
    BY DEF RunEffect, ClickRefresh, IInv, PageInv
  <1>2. CASE UNCHANGED task
    BY <1>1, <1>2, <1>p, WindowKept DEF RunEffect, ClickRefresh
  <1>3. CASE Start("lock", "none") /\ page = "balance"
    <2>1. "lock" \in StepsOf(page) /\ page \notin OrderPages /\ "none" \notin Orders
      BY <1>3 DEF StepsOf, OrderPages
    <2> QED
      BY <1>1, <1>3, <1>p, <2>1, StartStep DEF RunEffect, ClickRefresh
  <1>4. page = "balance"
    BY DEF RunEffect, ClickRefresh, IInv, PageInv
  <1> QED
    BY <1>2, <1>3, <1>4 DEF RunEffect, ClickRefresh, FetchBalance

LEMMA ClickOrderStep == ASSUME IInv, ClickOrder PROVE IInv'
  <1>0. TypeInv
    BY DEF IInv
  <1>1. WindowOK'
    BY <1>0 DEF TypeInv, WindowOK, ClickOrder
  <1>2. PICK o \in Orders : /\ Unasked(o)
                            /\ told' = [told EXCEPT ![o] = "approved"]
                            /\ Start(IF page = "send" THEN "decrypt" ELSE "lock", o)
    <2> DEFINE first == CHOOSE o \in Orders : Unasked(o)
    <2>1. first \in Orders /\ Unasked(first)
      BY Zenon DEF ClickOrder
    <2>2. told' = [told EXCEPT ![first] = "approved"]
          /\ Start(IF page = "send" THEN "decrypt" ELSE "lock", first)
      BY Zenon DEF ClickOrder
    <2> HIDE DEF first
    <2> QED
      BY <2>1, <2>2
  <1> DEFINE step == IF page = "send" THEN "decrypt" ELSE "lock"
  <1>3. step \in StepsOf(page) /\ step \in {"lock", "decrypt"} /\ page \in OrderPages
    BY DEF ClickOrder, OrderPages, StepsOf
  <1> HIDE DEF step
  <1> QED
    BY <1>1, <1>2, <1>3, StartStep DEF ClickOrder, Unasked, step, IInv, PageInv

\* A closure's step: `now' is what it does to the order on the network.
LEMMA ClosureStep ==
  ASSUME IInv, NEW t \in Tasks, NEW step \in StepsOf(task[t].kind), Goto(t, step),
         step \in Calling <=> mutex' = t,
         mutex' # mutex => {mutex, mutex'} = {t, "none"},
         mutex' \in Tasks \cup {"none"},
         NEW now, now \in Chain,
         IF task[t].order \in Orders THEN chain' = [chain EXCEPT ![task[t].order] = now]
                                     ELSE UNCHANGED chain,
         task[t].order \in Orders =>
            /\ task[t].at \in Approved <=> step \in Approved
            /\ step \in BeforeReach => now = "none"
            /\ step = "confirmed" => now \in {"ok", "failed"},
         task[t].at # "none", client' \in BOOLEAN, UNCHANGED <<window, told>>
  PROVE  IInv'
  <1>0. TypeInv /\ MutexInv /\ OrderInv
    BY DEF IInv
  <1>1. task \in [Tasks -> Fitting]
    BY <1>0 DEF TypeInv
  <1>2. /\ task' \in [Tasks -> Fitting]
        /\ \A u \in Tasks : u # t => task'[u] = task[u]
        /\ \/ /\ task'[t].at = step /\ task'[t].order = task[t].order
              /\ Similar(task'[t], task[t])
              /\ step \in Resuming => ~task[t].orphan
           \/ task'[t] = Idle /\ step \in Resuming
    BY <1>1, Moves
  <1>p. PageInv'
    <2>1. \/ task'[t] = Idle
          \/ /\ task[t].at # "none" /\ Similar(task'[t], task[t])
             /\ task'[t].at \in Resuming => ~task[t].orphan
      BY <1>2
    <2>2. UNCHANGED page /\ (effect' => page = "balance")
      BY DEF window, IInv, PageInv
    <2> QED
      BY <1>2, <2>1, <2>2, PageKept DEF IInv
  <1>3. MutexInv'
    <2>1. task'[t].at \in Calling <=> step \in Calling
      BY <1>2, IdleFits DEF Calling, Resuming
    <2> QED
      BY <1>0, <1>2, <2>1, MutexKept
  <1>4. /\ chain' \in [Orders -> Chain]
        /\ \A o \in Orders : o # task[t].order => chain'[o] = chain[o]
        /\ task[t].order \in Orders => chain'[task[t].order] = now
    BY <1>0 DEF TypeInv
  <1>5. task[t].order \in Orders =>
           told'[task[t].order] = IF step \in Approved THEN "approved" ELSE "submitted"
    BY <1>0 DEF OrderInv, Matches
  <1>6. OrderInv'
    <2>1. \/ task'[t].at = step /\ task'[t].order = task[t].order
          \/ task'[t] = Idle
      BY <1>2
    <2> QED
      BY <1>0, <1>2, <1>4, <1>5, <2>1, ServeKept
  <1>7. TypeInv'
    BY <1>0, <1>2, <1>4 DEF TypeInv, WindowOK, window
  <1> QED
    BY <1>3, <1>6, <1>7, <1>p DEF IInv

\* Most closures leave the network alone.
LEMMA QuietStep ==
  ASSUME IInv, NEW t \in Tasks, NEW step \in StepsOf(task[t].kind), Goto(t, step),
         step \in Calling <=> mutex' = t,
         mutex' # mutex => {mutex, mutex'} = {t, "none"},
         mutex' \in Tasks \cup {"none"},
         task[t].order \in Orders =>
            /\ task[t].at \in Approved <=> step \in Approved
            /\ step \in BeforeReach => task[t].at \in BeforeReach
            /\ step = "confirmed" => chain[task[t].order] \in {"ok", "failed"},
         task[t].at # "none", client' \in BOOLEAN, UNCHANGED <<window, told, chain>>
  PROVE  IInv'
  <1>0. TypeInv /\ OrderInv
    BY DEF IInv
  <1> DEFINE now == IF task[t].order \in Orders THEN chain[task[t].order] ELSE "none"
  <1>1. now \in Chain
    BY <1>0 DEF TypeInv, Chain
  <1>2. IF task[t].order \in Orders THEN chain' = [chain EXCEPT ![task[t].order] = now]
                                    ELSE UNCHANGED chain
    BY <1>0 DEF TypeInv
  <1>3. task[t].order \in Orders /\ task[t].at \in BeforeReach => now = "none"
    BY <1>0 DEF OrderInv, Matches
  <1>4. task[t].order \in Orders => now = chain[task[t].order]
    OBVIOUS
  <1> HIDE DEF now
  <1> QED
    BY <1>1, <1>2, <1>3, <1>4, ClosureStep

LEMMA DecryptStep == ASSUME IInv, NEW t \in Tasks, Decrypt(t) PROVE IInv'
  <1>1. task[t] \in Fitting /\ task[t].at = "decrypt" /\ mutex # t /\ client \in BOOLEAN
        /\ mutex \in Tasks \cup {"none"}
    BY DEF Decrypt, IInv, TypeInv, WindowOK, MutexInv, Calling
  <1>2. PICK step \in {"lock", "aborted"} : Goto(t, step)
    BY DEF Decrypt
  <1>3. step \in StepsOf(task[t].kind)
    BY <1>1, KindOfStep DEF StepsOf, Serving
  <1>4. task[t].at \in Approved /\ step \in Approved /\ task[t].at \in BeforeReach
        /\ step \notin Calling /\ step # "confirmed"
    BY <1>1 DEF Approved, BeforeReach, Calling
  <1> QED
    BY <1>1, <1>2, <1>3, <1>4, QuietStep DEF Decrypt

LEMMA TakeClientStep == ASSUME IInv, NEW t \in Tasks, TakeClient(t) PROVE IInv'
  <1>1. task[t] \in Fitting
    BY DEF IInv, TypeInv
  <1>2. CASE task[t].at = "lock"
    <2>1. PICK step \in {"getBalance", "request", "blockhash"} :
             Goto(t, step) /\ step \in StepsOf(task[t].kind)
                           /\ (step = "getBalance" => task[t].kind = "balance")
      <3>1. task[t].kind \in {"balance", "airdrop", "send"}
        BY <1>1, <1>2, KindOfStep
      <3>2. FirstCall(t) = [balance |-> "getBalance", airdrop |-> "request",
                            send |-> "blockhash"][task[t].kind]
        BY <1>2 DEF FirstCall
      <3>3. FirstCall(t) \in {"getBalance", "request", "blockhash"}
            /\ FirstCall(t) \in StepsOf(task[t].kind)
            /\ (FirstCall(t) = "getBalance" => task[t].kind = "balance")
        BY <3>1, <3>2 DEF StepsOf
      <3> QED
        BY <3>3 DEF TakeClient
    <2>2. task[t].order \in Orders => step # "getBalance"
      BY <1>1, <2>1, KindOfStep DEF OrderPages
    <2>3. task[t].at \in Approved /\ task[t].at \in BeforeReach
          /\ (step # "getBalance" => step \in Approved) /\ step \in Calling /\ step # "confirmed"
      BY <1>2 DEF Approved, BeforeReach, Calling
    <2> QED
      BY <1>1, <2>1, <2>2, <2>3, QuietStep DEF TakeClient
  <1>3. CASE task[t].at = "lockAgain"
    <2>1. task[t].kind \in OrderPages
      BY <1>1, <1>3, KindOfStep DEF Serving
    <2>2. Goto(t, "status") /\ "status" \in StepsOf(task[t].kind)
      BY <1>3, <2>1 DEF TakeClient, FirstCall, StepsOf, OrderPages, Serving
    <2>3. task[t].at \notin Approved /\ "status" \notin Approved /\ "status" \notin BeforeReach
          /\ "status" \in Calling
      BY <1>3 DEF Approved, BeforeReach, Calling
    <2> QED
      BY <1>1, <1>3, <2>2, <2>3, QuietStep DEF TakeClient
  <1> QED
    BY <1>2, <1>3 DEF TakeClient

LEMMA NoClientStep == ASSUME IInv, NEW t \in Tasks, NoClient(t) PROVE IInv'
  <1>1. task[t] \in Fitting /\ task[t].at = "lock" /\ mutex # t /\ client \in BOOLEAN
        /\ mutex \in Tasks \cup {"none"}
    BY DEF NoClient, IInv, TypeInv, WindowOK, MutexInv, Calling
  <1>2. PICK step \in {"noBalance", "aborted"} :
           Goto(t, step) /\ step \in StepsOf(task[t].kind)
                         /\ (step = "noBalance" => task[t].kind = "balance")
    <2>1. task[t].kind \in {"balance", "airdrop", "send"}
      BY <1>1, KindOfStep
    <2>2. Goto(t, [balance |-> "noBalance", airdrop |-> "aborted",
                   send |-> "aborted"][task[t].kind])
      BY DEF NoClient
    <2> QED
      BY <2>1, <2>2 DEF StepsOf, Serving
  <1>3. task[t].order \in Orders => step # "noBalance"
    BY <1>1, <1>2, KindOfStep DEF OrderPages
  <1>4. task[t].at \in Approved /\ task[t].at \in BeforeReach
        /\ (step # "noBalance" => step \in Approved) /\ step \notin Calling /\ step # "confirmed"
    BY <1>1 DEF Approved, BeforeReach, Calling
  <1> QED
    BY <1>1, <1>2, <1>3, <1>4, QuietStep DEF NoClient

\* What is common to the ends of a request.
LEMMA InRequest ==
  ASSUME IInv, NEW t \in Tasks, task[t].at \in Calling
  PROVE  task[t] \in Fitting /\ mutex = t /\ t # "none" /\ client \in BOOLEAN
  BY DEF IInv, TypeInv, WindowOK, MutexInv

LEMMA GetBalanceStep == ASSUME IInv, NEW t \in Tasks, GetBalance(t) PROVE IInv'
  <1>1. task[t].at = "getBalance" /\ mutex' = "none"
    BY DEF GetBalance
  <1>2. task[t] \in Fitting /\ mutex = t /\ t # "none" /\ client \in BOOLEAN
    BY <1>1, InRequest DEF Calling
  <1>3. PICK step \in {"fetched", "noBalance"} : Goto(t, step)
    BY DEF GetBalance
  <1>4. step \in StepsOf(task[t].kind) /\ task[t].order \notin Orders
    BY <1>1, <1>2, KindOfStep DEF StepsOf, OrderPages
  <1>5. step \notin Calling
    BY DEF Calling
  <1> QED
    BY <1>1, <1>2, <1>3, <1>4, <1>5, QuietStep DEF GetBalance

LEMMA BuildTransferStep == ASSUME IInv, NEW t \in Tasks, BuildTransfer(t) PROVE IInv'
  <1>1. task[t].at = "blockhash"
    BY DEF BuildTransfer
  <1>2. task[t] \in Fitting /\ mutex = t /\ t # "none" /\ client \in BOOLEAN
    BY <1>1, InRequest DEF Calling
  <1>3. task[t].kind = "send" /\ task[t].at \in Approved /\ task[t].at \in BeforeReach
    BY <1>1, <1>2, KindOfStep DEF Approved, BeforeReach
  <1>4. CASE Goto(t, "submit") /\ UNCHANGED mutex
    <2>1. "submit" \in StepsOf(task[t].kind) /\ "submit" \in Approved /\ "submit" \in Calling
      BY <1>3 DEF StepsOf, Approved, BeforeReach, Calling
    <2> QED
      BY <1>1, <1>2, <1>3, <1>4, <2>1, QuietStep DEF BuildTransfer
  <1>5. CASE Goto(t, "aborted") /\ mutex' = "none"
    <2>1. "aborted" \in StepsOf(task[t].kind) /\ "aborted" \in Approved /\ "aborted" \notin Calling
      BY <1>3 DEF StepsOf, Approved, BeforeReach, Calling, Serving
    <2> QED
      BY <1>1, <1>2, <1>3, <1>5, <2>1, QuietStep DEF BuildTransfer
  <1> QED
    BY <1>4, <1>5 DEF BuildTransfer

LEMMA SendStep == ASSUME IInv, NEW t \in Tasks, Send(t) PROVE IInv'
  <1>1. task[t].at \in {"submit", "request"} /\ mutex' = "none"
    BY DEF Send
  <1>2. task[t] \in Fitting /\ mutex = t /\ t # "none" /\ client \in BOOLEAN
    BY <1>1, InRequest DEF Calling
  <1>3. task[t].kind \in OrderPages /\ task[t].order \in Orders /\ task[t].at \in Approved
    BY <1>1, <1>2, KindOfStep DEF OrderPages, Approved, BeforeReach
  <1>4. PICK step \in {"failed", "signed"}, now \in {"none", "pending"} :
           Goto(t, step) /\ chain' = [chain EXCEPT ![task[t].order] = now]
    BY DEF Send
  <1>5. step \in StepsOf(task[t].kind) /\ step \in Approved /\ step \notin BeforeReach
        /\ step \notin Calling /\ step # "confirmed" /\ now \in Chain
    BY <1>3 DEF StepsOf, OrderPages, Serving, Approved, BeforeReach, Calling, Chain
  <1> QED
    BY <1>1, <1>2, <1>3, <1>4, <1>5, ClosureStep DEF Send

LEMMA GetStatusStep == ASSUME IInv, NEW t \in Tasks, GetStatus(t) PROVE IInv'
  <1>1. task[t].at = "status" /\ mutex' = "none"
    BY DEF GetStatus
  <1>2. task[t] \in Fitting /\ mutex = t /\ t # "none" /\ client \in BOOLEAN
    BY <1>1, InRequest DEF Calling
  <1>3. task[t].kind \in OrderPages /\ task[t].at \notin Approved
    BY <1>1, <1>2, KindOfStep DEF Serving, Approved, BeforeReach
  <1>4. PICK step \in {"noStatus", "undecided", "confirmed"} :
           Goto(t, step) /\ (step = "confirmed" => chain[task[t].order] \in {"ok", "failed"})
    BY DEF GetStatus
  <1>5. step \in StepsOf(task[t].kind) /\ step \notin Approved /\ step \notin BeforeReach
        /\ step \notin Calling
    BY <1>3 DEF StepsOf, OrderPages, Serving, Approved, BeforeReach, Calling
  <1> QED
    BY <1>1, <1>2, <1>3, <1>4, <1>5, QuietStep DEF GetStatus

\* A continuation that ends its operation, with news of the order or without.
LEMMA EndStep ==
  ASSUME IInv, NEW t \in Tasks, task[t].at \in Resuming, EndTask(t),
         WindowOK', effect' => page = "balance", UNCHANGED <<page, client, mutex, chain>>,
         \/ UNCHANGED told
         \/ /\ task[t].order \in Orders
            /\ \E news \in Told \ {"nothing"} :
                  /\ told' = [told EXCEPT ![task[t].order] = news]
                  /\ news = "aborted" => chain[task[t].order] = "none"
  PROVE  IInv'
  <1>0. TypeInv /\ MutexInv /\ OrderInv /\ PageInv
    BY DEF IInv
  <1>1. /\ task' \in [Tasks -> Fitting]
        /\ \A u \in Tasks : u # t => task'[u] = task[u]
        /\ task'[t] = Idle
    BY <1>0, Ends DEF TypeInv
  <1>2. MutexInv'
    <2>1. task'[t].at \notin Calling /\ task[t].at \notin Calling
      BY <1>1, IdleFits DEF Calling, Resuming
    <2>2. mutex # t
      BY <1>0, <2>1 DEF MutexInv
    <2> QED
      BY <1>0, <1>1, <2>1, <2>2, MutexKept
  <1>3. PageInv'
    BY <1>0, <1>1, PageKept
  <1>4. /\ told' \in [Orders -> Told]
        /\ \A o \in Orders : o # task[t].order => told'[o] = told[o]
        /\ task[t].order \in Orders /\ told'[task[t].order] \in {"nothing", "aborted"}
              => chain[task[t].order] = "none"
    BY <1>0 DEF TypeInv, OrderInv
  <1>5. OrderInv'
    BY <1>0, <1>1, <1>4, EndKept
  <1> QED
    BY <1>0, <1>1, <1>2, <1>3, <1>4, <1>5 DEF IInv, TypeInv

LEMMA ShowBalanceStep ==
  ASSUME IInv, NEW t \in Tasks, ShowBalance(t) \/ ShowNoBalance(t)
  PROVE  IInv'
  <1>1. task[t] \in Fitting /\ task[t].at \in {"fetched", "noBalance"} /\ TypeInv /\ PageInv
    BY DEF ShowBalance, ShowNoBalance, IInv, TypeInv
  <1>2. task[t].at \in Resuming /\ task[t].at # "none"
    BY <1>1 DEF Resuming
  <1>3. page = "balance"
    BY <1>1, <1>2, KindOfStep DEF PageInv
  <1>4. WindowOK'
    <2>1. task[t].key \in Keypairs \cup {"none"}
      BY <1>1 DEF Fitting, Task
    <2> QED
      BY <1>1, <2>1 DEF ShowBalance, ShowNoBalance, TypeInv, WindowOK
  <1> QED
    BY <1>2, <1>3, <1>4, EndStep DEF ShowBalance, ShowNoBalance

\* Of the order being served, the user was told what Matches says.
LEMMA Served ==
  ASSUME IInv, NEW t \in Tasks, task[t].at \in Serving
  PROVE  /\ task[t] \in Fitting /\ task[t].kind \in OrderPages /\ task[t].order \in Orders
         /\ task[t].at \in Approved => told[task[t].order] = "approved"
         /\ task[t].at \notin Approved => told[task[t].order] = "submitted"
         /\ task[t].at = "aborted" => chain[task[t].order] = "none"
         /\ task[t].at = "confirmed" => chain[task[t].order] \in {"ok", "failed"}
  <1>1. task[t] \in Fitting /\ Matches(task[t])
    BY DEF IInv, TypeInv, OrderInv
  <1>2. task[t].kind \in OrderPages /\ task[t].order \in Orders
    BY <1>1, KindOfStep
  <1> QED
    BY <1>1, <1>2 DEF Matches, BeforeReach

LEMMA AnswerStep ==
  ASSUME IInv, NEW t \in Tasks, ShowError(t) \/ GiveUp(t) \/ ShowConfirmed(t)
  PROVE  IInv'
  <1>1. task[t].at \in {"failed", "aborted", "undecided", "noStatus", "confirmed"}
    BY DEF ShowError, GiveUp, ShowConfirmed
  <1>2. task[t].at \in Resuming /\ task[t].at \in Serving
    BY <1>1 DEF Resuming, Serving
  <1>3. task[t].order \in Orders /\ (task[t].at = "aborted" => chain[task[t].order] = "none")
    BY <1>2, Served
  <1>4. WindowOK' /\ (effect' => page = "balance")
    <2>1. /\ UNCHANGED <<page, loaded, effect, drawn, client, mutex>>
          /\ balance' \in {balance, "none"} /\ busy' = FALSE
      BY DEF ShowError, GiveUp, ShowConfirmed
    <2> QED
      BY <2>1 DEF IInv, TypeInv, WindowOK, PageInv
  <1>5. PICK news \in {"aborted", "unknown", "confirmed"} :
           /\ told' = [told EXCEPT ![task[t].order] = news]
           /\ news = "aborted" => task[t].at = "aborted"
    BY DEF ShowError, GiveUp, ShowConfirmed, Tell
  <1>6. news \in Told \ {"nothing"}
    BY DEF Told
  <1> QED
    BY <1>2, <1>3, <1>4, <1>5, <1>6, EndStep DEF ShowError, GiveUp, ShowConfirmed

LEMMA ShowSignatureStep == ASSUME IInv, NEW t \in Tasks, ShowSignature(t) PROVE IInv'
  <1>0. TypeInv /\ MutexInv /\ OrderInv /\ PageInv
    BY DEF IInv
  <1>1. task[t].at = "signed" /\ task[t].at \in Resuming /\ task[t].at \in Serving
    BY DEF ShowSignature, Resuming, Serving
  <1>2. task[t] \in Fitting /\ task[t].kind \in OrderPages /\ task[t].order \in Orders
    BY <1>1, Served
  <1>3. "asleep" \in StepsOf(task[t].kind)
    BY <1>2 DEF StepsOf, OrderPages, Serving
  <1>4. /\ task' \in [Tasks -> Fitting]
        /\ \A u \in Tasks : u # t => task'[u] = task[u]
        /\ \/ /\ task'[t].at = "asleep" /\ task'[t].order = task[t].order
              /\ Similar(task'[t], task[t])
              /\ "asleep" \in Resuming => ~task[t].orphan
           \/ task'[t] = Idle /\ "asleep" \in Resuming
    BY <1>0, <1>3, Moves DEF ShowSignature, TypeInv
  <1>5. told' = [told EXCEPT ![task[t].order] = "submitted"] /\ UNCHANGED <<window, client, mutex, chain>>
    BY DEF ShowSignature, Tell
  <1>6. MutexInv'
    <2>1. task'[t].at \notin Calling /\ task[t].at \notin Calling
      BY <1>1, <1>4, IdleFits DEF Calling
    <2>2. mutex # t
      BY <1>0, <2>1 DEF MutexInv
    <2> QED
      BY <1>0, <1>4, <1>5, <2>1, <2>2, MutexKept
  <1>7. PageInv'
    <2>1. \/ task'[t] = Idle
          \/ /\ task[t].at # "none" /\ Similar(task'[t], task[t])
             /\ task'[t].at \in Resuming => ~task[t].orphan
      BY <1>1, <1>4
    <2>2. UNCHANGED page /\ (effect' => page = "balance")
      BY <1>0, <1>5 DEF window, PageInv
    <2> QED
      BY <1>0, <1>4, <2>1, <2>2, PageKept
  <1>8. OrderInv'
    <2>1. "asleep" \notin Approved /\ "asleep" \notin BeforeReach
      BY DEF Approved, BeforeReach
    <2>2. /\ told'[task[t].order] = "submitted"
          /\ \A o \in Orders : o # task[t].order => told'[o] = told[o]
      BY <1>0, <1>2, <1>5 DEF TypeInv
    <2> QED
      BY <1>0, <1>4, <1>5, <2>1, <2>2, ServeKept
  <1>9. TypeInv'
    <2>1. told' \in [Orders -> Told]
      BY <1>0, <1>5 DEF TypeInv, Told
    <2> QED
      BY <1>0, <1>4, <1>5, <2>1 DEF TypeInv, WindowOK, window
  <1> QED
    BY <1>6, <1>7, <1>8, <1>9 DEF IInv

LEMMA WakeStep == ASSUME IInv, NEW t \in Tasks, Wake(t) PROVE IInv'
  <1>1. task[t].at = "asleep" /\ task[t].at \in Serving /\ task[t].at # "none"
    BY DEF Wake, Serving
  <1>2. task[t] \in Fitting /\ task[t].kind \in OrderPages
    BY <1>1, Served
  <1>3. mutex # t /\ client \in BOOLEAN /\ mutex \in Tasks \cup {"none"}
    BY <1>1 DEF IInv, TypeInv, WindowOK, MutexInv, Calling
  <1>4. "lockAgain" \in StepsOf(task[t].kind) /\ "lockAgain" \notin Approved
        /\ "lockAgain" \notin BeforeReach /\ "lockAgain" \notin Calling /\ task[t].at \notin Approved
    BY <1>1, <1>2 DEF StepsOf, OrderPages, Serving, Approved, BeforeReach, Calling
  <1> QED
    BY <1>1, <1>3, <1>4, QuietStep DEF Wake

LEMMA PollAgainStep == ASSUME IInv, NEW t \in Tasks, PollAgain(t) PROVE IInv'
  <1>0. TypeInv /\ MutexInv /\ OrderInv /\ PageInv
    BY DEF IInv
  <1>1. task[t].at = "undecided" /\ task[t].at \in Resuming /\ task[t].at \in Serving
    BY DEF PollAgain, Resuming, Serving
  <1>2. task[t] \in Fitting /\ task[t].kind \in OrderPages /\ task[t].order \in Orders
        /\ told[task[t].order] = "submitted"
    BY <1>1, Served DEF Approved, BeforeReach
  <1> DEFINE new == [task[t] EXCEPT !.at = "asleep", !.polls = @ + 1]
  <1>3. /\ new \in Task /\ new.at = "asleep" /\ new.order = task[t].order
        /\ new.kind = task[t].kind /\ new.orphan = task[t].orphan
    <2>1. task[t].polls \in 0..(MaxPolls - 1) /\ task[t].polls + 1 \in 0..(MaxPolls - 1)
      BY <1>2 DEF PollAgain, Fitting, Task
    <2> QED
      BY <1>2, <2>1 DEF Fitting, Task, Resuming
  <1>4. new \in Fitting
    <2>1. Fits(task[t]) /\ "asleep" \in StepsOf(task[t].kind)
      BY <1>2 DEF Fitting, StepsOf, OrderPages, Serving
    <2> HIDE DEF new
    <2> QED
      BY <1>3, <2>1 DEF Fitting, Fits
  <1>5. task' = [task EXCEPT ![t] = new]
    BY <1>0 DEF PollAgain, TypeInv
  <1> HIDE DEF new
  <1>6. task' \in [Tasks -> Fitting] /\ task'[t] = new
        /\ \A u \in Tasks : u # t => task'[u] = task[u]
    BY <1>0, <1>4, <1>5 DEF TypeInv
  <1>7. UNCHANGED <<window, client, mutex, told, chain>>
    BY DEF PollAgain
  <1>8. MutexInv'
    <2>1. task'[t].at \notin Calling /\ task[t].at \notin Calling
      BY <1>1, <1>3, <1>6 DEF Calling
    <2>2. mutex # t
      BY <1>0, <2>1 DEF MutexInv
    <2> QED
      BY <1>0, <1>6, <1>7, <2>1, <2>2, MutexKept
  <1>9. PageInv'
    <2>1. task[t].at # "none" /\ Similar(task'[t], task[t]) /\ ~task[t].orphan
      BY <1>0, <1>1, <1>3, <1>6 DEF Similar, PageInv
    <2>2. UNCHANGED page /\ (effect' => page = "balance")
      BY <1>0, <1>7 DEF window, PageInv
    <2> QED
      BY <1>0, <1>6, <2>1, <2>2, PageKept
  <1>10. OrderInv'
    <2>1. "asleep" \notin Approved /\ "asleep" \notin BeforeReach
      BY DEF Approved, BeforeReach
    <2> QED
      BY <1>0, <1>2, <1>3, <1>6, <1>7, <2>1, ServeKept
  <1>11. TypeInv'
    BY <1>0, <1>6, <1>7 DEF TypeInv, WindowOK, window
  <1> QED
    BY <1>8, <1>9, <1>10, <1>11 DEF IInv

\* The cluster decides an order that reached it; no answer is taken back.
LEMMA ExecuteStep == ASSUME IInv, NEW o \in Orders, Execute(o) PROVE IInv'
  <1>0. TypeInv /\ MutexInv /\ OrderInv /\ PageInv
    BY DEF IInv
  <1>1. PICK c \in {"ok", "failed", "none"} : chain' = [chain EXCEPT ![o] = c]
    BY DEF Execute
  <1>2. chain[o] = "pending" /\ UNCHANGED <<window, client, mutex, task, told>>
    BY DEF Execute
  <1>3. chain' \in [Orders -> Chain] /\ \A p \in Orders : p # o => chain'[p] = chain[p]
    BY <1>0, <1>1 DEF TypeInv, Chain
  <1>4. ASSUME NEW t \in Tasks PROVE Matches(task[t])'
    <2>1. Matches(task[t])
      BY <1>0 DEF OrderInv
    <2>2. task[t].order = o => task[t].at \notin BeforeReach /\ task[t].at # "confirmed"
      BY <1>2, <2>1 DEF Matches
    <2> QED
      BY <1>2, <1>3, <2>1, <2>2 DEF Matches
  <1>5. \A p \in Orders : told'[p] \in {"nothing", "aborted"} => chain'[p] = "none"
    BY <1>0, <1>2, <1>3 DEF OrderInv
  <1>6. OrderInv'
    BY <1>0, <1>2, <1>4, <1>5 DEF OrderInv
  <1>7. TypeInv' /\ MutexInv' /\ PageInv'
    BY <1>0, <1>2, <1>3 DEF TypeInv, WindowOK, MutexInv, PageInv, window
  <1> QED
    BY <1>6, <1>7 DEF IInv

LEMMA NextIInv == IInv /\ [Next]_vars => IInv'
  <1> SUFFICES ASSUME IInv, [Next]_vars PROVE IInv'
    OBVIOUS
  <1>1. CASE UNCHANGED vars
    BY <1>1, WindowKept DEF vars, window, IInv, TypeInv, WindowOK, PageInv
  <1>2. CASE Window
    <2>1. ASSUME NEW p \in Pages, GoTo(p) PROVE IInv'
      BY <2>1, GoToStep
    <2>2. ASSUME NEW k \in Keypairs \cup {"none"}, SetKeypair(k) PROVE IInv'
      BY <2>2, WindowKept DEF SetKeypair, IInv, TypeInv, WindowOK
    <2>3. CASE StatusChanges \/ Render
      BY <2>3, WindowKept DEF StatusChanges, Render, IInv, TypeInv, WindowOK, PageInv
    <2> QED
      BY <1>2, <2>1, <2>2, <2>3, FetchStep, ClickOrderStep DEF Window
  <1>3. ASSUME NEW t \in Tasks, Closure(t) PROVE IInv'
    BY <1>3, DecryptStep, TakeClientStep, NoClientStep, GetBalanceStep, BuildTransferStep,
       SendStep, GetStatusStep DEF Closure
  <1>4. ASSUME NEW t \in Tasks, Continuation(t) PROVE IInv'
    BY <1>4, ShowBalanceStep, AnswerStep, ShowSignatureStep, WakeStep, PollAgainStep
       DEF Continuation
  <1> QED
    BY <1>1, <1>2, <1>3, <1>4, ExecuteStep DEF Next

LEMMA IInvariant == Spec => []IInv
  BY InitIInv, NextIInv, PTL DEF Spec

-----------------------------------------------------------------------------
\* Every variable keeps its type: an operation's step is one of its page, and
\* it serves an order when the page takes orders.
THEOREM TypeCorrect == Spec => []TypeOK
  <1>1. IInv => TypeOK
    BY DEF IInv, TypeInv, WindowOK, TypeOK, Fitting
  <1> QED
    BY IInvariant, <1>1, PTL

\* Of all pages, with the closures of those that were left, one at most has a
\* request on the way in the shared RPC client.
THEOREM OneRequest == Spec => []OneRequestAtATime
  <1>1. IInv => OneRequestAtATime
    BY DEF IInv, MutexInv, OneRequestAtATime
  <1> QED
    BY IInvariant, <1>1, PTL

-----------------------------------------------------------------------------
(* The window implements Transfer, when being executed is all that         *)
(* "confirmed" claims.                                                     *)

LEMMA TellMaps ==
  ASSUME IInv, NEW o \in Orders, NEW news \in T!Verdicts \cup {"submitted"},
         told[o] \in {"approved", "submitted"}, UNCHANGED chain,
         told' = [told EXCEPT ![o] = news],
         news = "confirmed" => chain[o] \in {"ok", "failed"},
         news = "aborted" => chain[o] = "none",
         news # "failed"
  PROVE  T!Next
  <1>1. UNCHANGED executed
    BY DEF executed
  <1>2. news = "confirmed" => executed[o] = "ok"
    BY DEF executed
  <1>3. news = "aborted" => executed[o] = "no"
    BY DEF executed
  <1>4. T!Tell(o, news)
    BY <1>1, <1>2, <1>3 DEF T!Tell, T!Open
  <1> QED
    BY <1>4 DEF T!Next

LEMMA ExecuteMaps == ASSUME IInv, NEW o \in Orders, Execute(o) PROVE [T!Next]_T!vars
  <1>1. PICK c \in {"ok", "failed", "none"} : chain' = [chain EXCEPT ![o] = c]
    BY DEF Execute
  <1>2. chain[o] = "pending" /\ UNCHANGED told /\ chain \in [Orders -> Chain]
    BY DEF Execute, IInv, TypeInv
  <1>3. executed[o] = "no" /\ told[o] \notin {"nothing", "aborted"}
    <2>1. executed[o] = "no"
      BY <1>2 DEF executed
    <2>2. told[o] \in {"nothing", "aborted"} => chain[o] = "none"
      BY DEF IInv, OrderInv
    <2> QED
      BY <1>2, <2>1, <2>2
  <1>4. CASE c = "none"
    <2>1. UNCHANGED executed
      BY <1>1, <1>2, <1>4 DEF executed
    <2> QED
      BY <1>2, <2>1 DEF T!vars
  <1>5. CASE c \in {"ok", "failed"}
    <2>1. executed' = [executed EXCEPT ![o] = "ok"]
      BY <1>1, <1>2, <1>5 DEF executed
    <2>2. T!Land(o, "ok")
      BY <1>2, <1>3, <2>1 DEF T!Land
    <2> QED
      BY <2>2 DEF T!Next, T!Outcomes
  <1> QED
    BY <1>4, <1>5

LEMMA NextMaps == IInv /\ [Next]_vars => [T!Next]_T!vars
  <1> SUFFICES ASSUME IInv, [Next]_vars PROVE [T!Next]_T!vars
    OBVIOUS
  <1>1. CASE UNCHANGED <<told, chain>>
    BY <1>1 DEF T!vars, executed
  <1>2. CASE ClickOrder
    <2> DEFINE first == CHOOSE o \in Orders : Unasked(o)
    <2>1. first \in Orders /\ Unasked(first)
      BY <1>2, Zenon DEF ClickOrder
    <2>2. told' = [told EXCEPT ![first] = "approved"] /\ UNCHANGED chain
      BY <1>2, Zenon DEF ClickOrder
    <2> HIDE DEF first
    <2>3. T!Approve(first)
      BY <2>1, <2>2 DEF T!Approve, Unasked, executed
    <2> QED
      BY <2>1, <2>3 DEF T!Next
  <1>3. ASSUME NEW t \in Tasks, Send(t) PROVE [T!Next]_T!vars
    <2>1. task[t].order \in Orders /\ chain[task[t].order] = "none" /\ chain \in [Orders -> Chain]
      <3>1. task[t] \in Fitting /\ Matches(task[t])
        BY DEF IInv, TypeInv, OrderInv
      <3>2. task[t].at \in {"submit", "request"} /\ task[t].at \in BeforeReach
        BY <1>3 DEF Send, BeforeReach
      <3>3. task[t].order \in Orders
        BY <3>1, <3>2, KindOfStep DEF OrderPages
      <3> QED
        BY <3>1, <3>2, <3>3 DEF Matches, IInv, TypeInv
    <2>2. PICK c \in {"none", "pending"} : chain' = [chain EXCEPT ![task[t].order] = c]
      BY <1>3 DEF Send
    <2>3. UNCHANGED executed /\ UNCHANGED told
      BY <1>3, <2>1, <2>2 DEF executed, Send
    <2> QED
      BY <2>3 DEF T!vars
  <1>4. ASSUME NEW t \in Tasks, ShowError(t) \/ GiveUp(t) \/ ShowConfirmed(t)
        PROVE  [T!Next]_T!vars
    <2>1. task[t].at \in {"failed", "aborted", "undecided", "noStatus", "confirmed"}
      BY <1>4 DEF ShowError, GiveUp, ShowConfirmed
    <2>2. task[t].at \in Serving
      BY <2>1 DEF Serving
    <2>3. PICK news \in {"aborted", "unknown", "confirmed"} :
             /\ told' = [told EXCEPT ![task[t].order] = news]
             /\ news = "aborted" => task[t].at = "aborted"
             /\ news = "confirmed" => task[t].at = "confirmed"
      BY <1>4 DEF ShowError, GiveUp, ShowConfirmed, Tell
    <2>4. /\ task[t].order \in Orders /\ told[task[t].order] \in {"approved", "submitted"}
          /\ news = "aborted" => chain[task[t].order] = "none"
          /\ news = "confirmed" => chain[task[t].order] \in {"ok", "failed"}
      BY <2>2, <2>3, Served
    <2>5. news \in T!Verdicts \cup {"submitted"} /\ news # "failed" /\ UNCHANGED chain
      BY <1>4 DEF T!Verdicts, ShowError, GiveUp, ShowConfirmed
    <2> QED
      BY <2>3, <2>4, <2>5, TellMaps
  <1>5. ASSUME NEW t \in Tasks, ShowSignature(t) PROVE [T!Next]_T!vars
    <2>1. task[t].at = "signed" /\ task[t].at \in Serving /\ task[t].at \in Approved
      BY <1>5 DEF ShowSignature, Serving, Approved
    <2>2. told' = [told EXCEPT ![task[t].order] = "submitted"] /\ UNCHANGED chain
      BY <1>5 DEF ShowSignature, Tell
    <2> QED
      BY <2>1, <2>2, Served, TellMaps DEF T!Verdicts
  <1>6. ASSUME NEW o \in Orders, Execute(o) PROVE [T!Next]_T!vars
    BY <1>6, ExecuteMaps
  <1>7. CASE Window
    BY <1>1, <1>2, <1>7 DEF Window, GoTo, SetKeypair, StatusChanges, Render, RunEffect, ClickRefresh
  <1>8. ASSUME NEW t \in Tasks, Closure(t) PROVE [T!Next]_T!vars
    BY <1>1, <1>3, <1>8 DEF Closure, Decrypt, TakeClient, NoClient, GetBalance, BuildTransfer, GetStatus
  <1>9. ASSUME NEW t \in Tasks, Continuation(t) PROVE [T!Next]_T!vars
    BY <1>1, <1>4, <1>5, <1>9 DEF Continuation, ShowBalance, ShowNoBalance, Wake, PollAgain
  <1> QED
    BY <1>1, <1>6, <1>7, <1>8, <1>9 DEF Next, vars

\* Orders asked for in the window behave as Transfer says, also when a page is
\* left, entered again and asked again: approved before they are executed,
\* never executed after "aborted", and confirmed only once they are.
THEOREM ImplementsTransfer == Spec => KeepsPromisesIfExecuted
  <1>1. Init => T!Init
    BY DEF Init, T!Init, executed
  <1> QED
    BY <1>1, NextMaps, IInvariant, PTL DEF Spec, KeepsPromisesIfExecuted, T!Spec
=============================================================================
