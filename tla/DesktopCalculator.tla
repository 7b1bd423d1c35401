-------------------------- MODULE DesktopCalculator --------------------------
(***************************************************************************)
(* The calculator side of the desktop wallet (src/ui/cwallet-ui): the      *)
(* connection button, the keypair menu and the page that creates keypairs. *)
(*                                                                         *)
(* Everything the user sees changes on one thread, the UI's. An operation  *)
(* on the calculator is a closure on the blocking pool, which holds the    *)
(* mutex of SharedCalculator, followed by a continuation on the UI thread. *)
(* The user clicks on the view that was drawn last, so a click can arrive  *)
(* that the current state would no longer offer. A continuation spawned by *)
(* a page dies with the page, its closure does not.                        *)
(***************************************************************************)
CONSTANTS
    Slots,    \* Str0..Str9
    Keypairs,
    Tasks     \* a bound: operations in progress at once

ASSUME ContentAssumption == {"missing", "none"} \cap Keypairs = {}
ASSUME TasksAssumption == {"none", "free", "disconnect"} \cap Tasks = {}

VARIABLES
    status,     \* wallet.connection_status
    handle,     \* SharedCalculator holds Some(calculator)
    loaded,     \* wallet.loaded_keypair
    loading,    \* loading_slot is Some, in the keypair menu
    creating,   \* the page that creates keypairs is mounted
    busy,       \* ... and its `busy' signal is set
    drawn,      \* what the view drawn last was made from
    ui,         \* "free", or what the UI thread waits for the mutex to do
    mutex,      \* the task whose closure holds SharedCalculator, or "none"
    task,       \* the operations in progress
    store       \* the calculator's string variables

signals == <<status, loaded, loading, creating, busy>>
vars == <<signals, handle, drawn, ui, mutex, task, store>>

Statuses == {"Disconnected", "Connecting", "Connected", "Error"}
Loaded == [slot : Slots, key : Keypairs]
Nothing == [slot |-> "none", key |-> "none"]
Contents == Keypairs \cup {"missing"}

\* A closure ends "done" or "failed"; an orphan's continuation is gone.
Kinds == {"idle", "connect", "load", "create"}
Steps == {"none", "spawned", "open", "generate", "lock", "use", "done", "failed"}
Task == [kind : Kinds, at : Steps, slot : Slots \cup {"none"},
         key : Keypairs \cup {"none"}, orphan : BOOLEAN]
Idle == [kind |-> "idle", at |-> "none", slot |-> "none", key |-> "none", orphan |-> FALSE]

View == [status |-> status, loading |-> loading, busy |-> busy]

TypeOK ==
    /\ status \in Statuses /\ loaded \in Loaded \cup {Nothing}
    /\ handle \in BOOLEAN /\ loading \in BOOLEAN /\ creating \in BOOLEAN /\ busy \in BOOLEAN
    /\ drawn \in [status : Statuses, loading : BOOLEAN, busy : BOOLEAN]
    /\ ui \in Tasks \cup {"free", "disconnect"}
    /\ mutex \in Tasks \cup {"none"}
    /\ task \in [Tasks -> Task]
    /\ store \in [Slots -> Contents]

Init ==
    /\ status = "Disconnected" /\ handle = FALSE /\ loaded = Nothing
    /\ loading = FALSE /\ creating = FALSE /\ busy = FALSE
    /\ drawn = View /\ ui = "free" /\ mutex = "none"
    /\ task = [t \in Tasks |-> Idle]
    /\ store \in [Slots -> Contents]

Start(t, kind, step, s) ==
    /\ task[t] = Idle
    /\ task' = [task EXCEPT ![t] = [Idle EXCEPT !.kind = kind, !.at = step, !.slot = s]]

At(t, kind, step) == task[t].kind = kind /\ task[t].at = step

\* The task moves on; an orphan is forgotten as soon as its closure ends.
Moved(t, new) ==
    task' = [task EXCEPT ![t] =
                IF task[t].orphan /\ new.at \in {"done", "failed"} THEN Idle ELSE new]

Resume(t, kind, step) ==
    /\ ui = "free"
    /\ At(t, kind, step)
    /\ task' = [task EXCEPT ![t] = Idle]

-----------------------------------------------------------------------------
(* connection_status.rs *)

ClickConnect(t) ==
    /\ ui = "free" /\ drawn.status \in {"Disconnected", "Error"}
    /\ Start(t, "connect", "spawned", "none")
    /\ UNCHANGED <<signals, handle, drawn, ui, mutex, store>>

BeginConnect(t) ==
    /\ ui = "free" /\ At(t, "connect", "spawned")
    /\ status' = "Connecting"
    /\ task' = [task EXCEPT ![t].at = "open"]
    /\ UNCHANGED <<loaded, loading, creating, busy, handle, drawn, ui, mutex, store>>

\* Calculator::open, without the mutex: calc_session_open on a new session.
Open(t) ==
    /\ At(t, "connect", "open")
    /\ \E outcome \in {"done", "failed"} : task' = [task EXCEPT ![t].at = outcome]
    /\ UNCHANGED <<signals, handle, drawn, ui, mutex, store>>

ConnectFails(t) ==
    /\ Resume(t, "connect", "failed")
    /\ status' = "Error"
    /\ UNCHANGED <<loaded, loading, creating, busy, handle, drawn, ui, mutex, store>>

\* The UI thread asks for the mutex, and serves no one until it has it.
ConnectSucceeds(t) ==
    /\ ui = "free" /\ At(t, "connect", "done")
    /\ ui' = t
    /\ UNCHANGED <<signals, handle, drawn, mutex, task, store>>

Install ==
    /\ ui \in Tasks /\ mutex = "none"
    /\ handle' = TRUE /\ status' = "Connected" /\ ui' = "free"
    /\ task' = [task EXCEPT ![ui] = Idle]
    /\ UNCHANGED <<loaded, loading, creating, busy, drawn, mutex, store>>

ClickDisconnect ==
    /\ ui = "free" /\ drawn.status = "Connected"
    /\ ui' = "disconnect"
    /\ UNCHANGED <<signals, handle, drawn, mutex, task, store>>

\* Faults: the handle is dropped without the mutex; the status is forgotten.
DisconnectAtOnce ==
    /\ ui = "disconnect"
    /\ handle' = FALSE /\ status' = "Disconnected" /\ loaded' = Nothing /\ ui' = "free"
    /\ UNCHANGED <<loading, creating, busy, drawn, mutex, task, store>>

DisconnectQuietly ==
    /\ ui = "disconnect" /\ mutex = "none"
    /\ handle' = FALSE /\ loaded' = Nothing /\ ui' = "free"
    /\ UNCHANGED <<status, loading, creating, busy, drawn, mutex, task, store>>

\* The Calculator is dropped, which runs calc_session_cleanup.
Disconnect ==
    /\ ui = "disconnect" /\ mutex = "none"
    /\ handle' = FALSE /\ status' = "Disconnected" /\ loaded' = Nothing /\ ui' = "free"
    /\ UNCHANGED <<loading, creating, busy, drawn, mutex, task, store>>

-----------------------------------------------------------------------------
(* The keypair menu of layout.rs, and create_keypair.rs. *)

ClickSlot(t, s) ==
    /\ ui = "free" /\ drawn.status = "Connected" /\ ~drawn.loading
    /\ Start(t, "load", "lock", s)
    /\ loading' = TRUE
    /\ UNCHANGED <<status, loaded, creating, busy, handle, drawn, ui, mutex, store>>

ClickCreate(t, s) ==
    /\ ui = "free" /\ creating /\ drawn.status = "Connected" /\ ~drawn.busy
    /\ Start(t, "create", "generate", s)
    /\ busy' = TRUE
    /\ UNCHANGED <<status, loaded, loading, creating, handle, drawn, ui, mutex, store>>

\* A new keypair is one that nothing refers to: a bound on how many do.
Fresh ==
    {k \in Keypairs : /\ \A s \in Slots : store[s] # k
                      /\ \A t \in Tasks : task[t].key # k
                      /\ loaded.key # k}

Generate(t) ==
    /\ At(t, "create", "generate")
    /\ \/ Moved(t, [task[t] EXCEPT !.at = "failed"])
       \/ \E k \in Fresh : Moved(t, [task[t] EXCEPT !.at = "lock", !.key = k])
    /\ UNCHANGED <<signals, handle, drawn, ui, mutex, store>>

\* A fault: the closure does not wait for the mutex.
TakeUnlocked(t) ==
    /\ task[t].at = "lock"
    /\ task' = [task EXCEPT ![t].at = "use"]
    /\ UNCHANGED <<signals, handle, drawn, ui, mutex, store>>

TakeCalculator(t) ==
    /\ task[t].at = "lock" /\ mutex = "none"
    /\ mutex' = t
    /\ task' = [task EXCEPT ![t].at = "use"]
    /\ UNCHANGED <<signals, handle, drawn, ui, store>>

\* A fault: an early return keeps the mutex.
FindNoneAndKeep(t) ==
    /\ task[t].at = "use" /\ ~handle
    /\ Moved(t, [task[t] EXCEPT !.at = "failed"])
    /\ UNCHANGED <<signals, handle, drawn, ui, mutex, store>>

FindNone(t) ==
    /\ task[t].at = "use" /\ ~handle
    /\ mutex' = "none"
    /\ Moved(t, [task[t] EXCEPT !.at = "failed"])
    /\ UNCHANGED <<signals, handle, drawn, ui, store>>

\* A fault: the length of what was fetched is not checked.
FetchUnchecked(t) ==
    /\ At(t, "load", "use") /\ handle
    /\ mutex' = "none"
    /\ Moved(t, [task[t] EXCEPT !.at = "done", !.key = store[task[t].slot]])
    /\ UNCHANGED <<signals, handle, drawn, ui, store>>

\* fetch_keypair: the transfer fails, or the variable holds no keypair, or it does.
FetchKeypair(t) ==
    /\ At(t, "load", "use") /\ handle
    /\ mutex' = "none"
    /\ \/ Moved(t, [task[t] EXCEPT !.at = "failed"])
       \/ /\ store[task[t].slot] \in Keypairs
          /\ Moved(t, [task[t] EXCEPT !.at = "done", !.key = store[task[t].slot]])
    /\ UNCHANGED <<signals, handle, drawn, ui, store>>

\* store_keypair: the variable is replaced; a transfer that fails leaves it
\* old, new or deleted, one the calculator skips leaves it old and succeeds.
StoreKeypair(t) ==
    /\ At(t, "create", "use") /\ handle
    /\ mutex' = "none"
    /\ \E outcome \in {"done", "failed"}, content \in {store[task[t].slot], task[t].key, "missing"} :
          /\ outcome = "done" => content # "missing" \/ store[task[t].slot] = "missing"
          /\ store' = [store EXCEPT ![task[t].slot] = content]
          /\ Moved(t, [task[t] EXCEPT !.at = outcome])
    /\ UNCHANGED <<signals, handle, drawn, ui>>

ShowLoaded(t) ==
    /\ Resume(t, "load", "done")
    /\ loaded' = [slot |-> task[t].slot, key |-> task[t].key]
    /\ loading' = FALSE
    /\ UNCHANGED <<status, creating, busy, handle, drawn, ui, mutex, store>>

ShowEmptySlot(t) ==
    /\ Resume(t, "load", "failed")
    /\ loading' = FALSE
    /\ UNCHANGED <<status, loaded, creating, busy, handle, drawn, ui, mutex, store>>

ShowCreated(t) ==
    /\ Resume(t, "create", "done") \/ Resume(t, "create", "failed")
    /\ busy' = FALSE
    /\ UNCHANGED <<status, loaded, loading, creating, handle, drawn, ui, mutex, store>>

-----------------------------------------------------------------------------
(* The router and the renderer, as main.rs and the components use them. *)

OpenCreatePage ==
    /\ ui = "free" /\ ~creating
    /\ creating' = TRUE /\ busy' = FALSE
    /\ drawn' = [drawn EXCEPT !.busy = FALSE]
    /\ UNCHANGED <<status, loaded, loading, handle, ui, mutex, task, store>>

LeaveCreatePage ==
    /\ ui = "free" /\ creating
    /\ creating' = FALSE /\ busy' = FALSE
    /\ drawn' = [drawn EXCEPT !.busy = FALSE]
    /\ task' = [t \in Tasks |->
                   IF task[t].kind # "create" THEN task[t]
                   ELSE IF task[t].at \in {"done", "failed"} THEN Idle
                   ELSE [task[t] EXCEPT !.orphan = TRUE]]
    /\ UNCHANGED <<status, loaded, loading, handle, ui, mutex, store>>

Render ==
    /\ ui = "free" /\ drawn # View
    /\ drawn' = View
    /\ UNCHANGED <<signals, handle, ui, mutex, task, store>>

-----------------------------------------------------------------------------
User ==
    \/ ClickDisconnect \/ OpenCreatePage \/ LeaveCreatePage
    \/ \E t \in Tasks : \/ ClickConnect(t)
                        \/ \E s \in Slots : ClickSlot(t, s) \/ ClickCreate(t, s)

UiThread ==
    \/ Install \/ Disconnect \/ Render
    \/ \E t \in Tasks :
          \/ BeginConnect(t) \/ ConnectFails(t) \/ ConnectSucceeds(t)
          \/ ShowLoaded(t) \/ ShowEmptySlot(t) \/ ShowCreated(t)

Closure(t) ==
    \/ Open(t) \/ Generate(t) \/ TakeCalculator(t)
    \/ FindNone(t) \/ FetchKeypair(t) \/ StoreKeypair(t)

Next == User \/ UiThread \/ \E t \in Tasks : Closure(t)

Spec == Init /\ [][Next]_vars

\* The UI thread and the pool's threads run; each transfer has the cable's
\* timeout. A mutex that is free is taken, and nothing says by whom.
FairSpec ==
    Spec /\ WF_vars(Install \/ Disconnect) /\ \A t \in Tasks : WF_vars(Closure(t))

-----------------------------------------------------------------------------
(* Properties *)

\* "All access goes through Arc<Mutex<>>, so this is safe" (ffi.rs:92): while a
\* closure talks to the calculator no other does, and the Calculator it talks
\* to is neither dropped by the Disconnect button nor replaced by a connection
\* that succeeds late, although both happen on a thread that holds no task.
NeverDroppedInUse ==
    /\ \A t \in Tasks : task[t].at = "use" => mutex = t
    /\ mutex # "none" => task[mutex].at = "use"

HandleIsSteady == [][mutex # "none" => handle' = handle]_vars

\* A wallet that says Connected has a calculator, whatever clicks and late
\* connections crossed each other. (The converse fails: a second connection
\* that fails after a first succeeded reads Error and keeps the handle.)
ConnectedHasCalculator == status = "Connected" => handle

\* The UI thread waits for a mutex that the pool holds for a whole transfer;
\* it always gets it, and the window answers again.
UiResponds == ui # "free" ~> ui = "free"

\* "Currently active keypair from your calculator." (load_keypair.rs:22) is said
\* of a keypair that the slot it names holds.
KeypairShownIsOnCalculator ==
    loaded # Nothing => handle /\ store[loaded.slot] = loaded.key
=============================================================================
