---------------------------- MODULE DesktopOrders ----------------------------
(***************************************************************************)
(* The Solana side of the desktop wallet: the balance, airdrop and send    *)
(* pages of src/ui/cwallet-ui and the RPC client they share. Threads,      *)
(* continuations and the view are as in DesktopCalculator, which models    *)
(* what changes the loaded keypair; here it changes at any time the UI     *)
(* thread is free (the mutex of SharedSolanaClient is only ever waited for *)
(* on the pool).                                                           *)
(***************************************************************************)
EXTENDS Naturals

CONSTANTS
    Keypairs,
    Orders,    \* a bound: transfers and airdrops asked for
    Tasks,     \* a bound: operations in progress at once
    MaxPolls   \* rounds of poll_confirmation: 60, or 30 for an airdrop

ASSUME PollsAssumption == MaxPolls \in Nat \ {0}
ASSUME NoneAssumption == "none" \notin Keypairs \cup Orders \cup Tasks

VARIABLES
    page,      \* the route shown
    loaded,    \* the keypair in wallet.loaded_keypair
    balance,   \* wallet.balance_lamports, as the keypair it was fetched for
    effect,    \* the balance page's effect is due
    busy,      \* the page's `busy' signal
    drawn,     \* `busy' in the view drawn last
    client,    \* SharedSolanaClient holds Some(client)
    mutex,     \* the task whose closure holds SharedSolanaClient, or "none"
    task,      \* the operations in progress
    told,      \* what the user was told last about each order
    chain      \* each order on the network

window == <<page, loaded, balance, effect, busy, drawn>>
vars == <<window, client, mutex, task, told, chain>>

Pages == {"other", "balance", "airdrop", "send"}
OrderPages == {"airdrop", "send"}

\* The steps of a closure, and of the continuation between two closures.
Waiting == {"decrypt", "lock", "lockAgain"}
Calling == {"getBalance", "blockhash", "submit", "request", "status"}
Resuming == {"fetched", "noBalance", "signed", "failed", "aborted", "asleep", "undecided",
             "confirmed", "noStatus"}
Task == [kind : Pages, at : {"none"} \cup Waiting \cup Calling \cup Resuming,
         key : Keypairs \cup {"none"}, order : Orders \cup {"none"},
         polls : 0..(MaxPolls - 1), orphan : BOOLEAN]
Idle == [kind |-> "other", at |-> "none", key |-> "none", order |-> "none",
         polls |-> 0, orphan |-> FALSE]

\* "unknown": an error, once the order may have reached the node.
Told == {"nothing", "approved", "submitted", "aborted", "unknown", "confirmed"}
Chain == {"none", "pending", "ok", "failed"}   \* "none": the network does not have it

TypeOK ==
    /\ page \in Pages
    /\ loaded \in Keypairs \cup {"none"} /\ balance \in Keypairs \cup {"none"}
    /\ effect \in BOOLEAN /\ busy \in BOOLEAN /\ drawn \in BOOLEAN
    /\ client \in BOOLEAN /\ mutex \in Tasks \cup {"none"}
    /\ task \in [Tasks -> Task]
    /\ told \in [Orders -> Told]
    /\ chain \in [Orders -> Chain]

Init ==
    /\ page = "other" /\ loaded = "none" /\ balance = "none" /\ effect = FALSE
    /\ busy = FALSE /\ drawn = FALSE /\ client = FALSE /\ mutex = "none"
    /\ task = [t \in Tasks |-> Idle]
    /\ told = [o \in Orders |-> "nothing"]
    /\ chain = [o \in Orders |-> "none"]

\* Names of operations and orders mean nothing: a new one has the first free.
Free(t) == task[t] = Idle
Start(step, o) ==
    /\ \E t \in Tasks : Free(t)
    /\ task' = [task EXCEPT ![CHOOSE t \in Tasks : Free(t)] =
                   [Idle EXCEPT !.kind = page, !.at = step, !.key = loaded, !.order = o]]

Unasked(o) == told[o] = "nothing"

\* A closure goes on; when it ends, an orphan is forgotten.
Goto(t, step) ==
    task' = [task EXCEPT ![t] =
                IF task[t].orphan /\ step \in Resuming THEN Idle
                ELSE [task[t] EXCEPT !.at = step]]

EndTask(t) == task' = [task EXCEPT ![t] = Idle]

Tell(t, news) == told' = [told EXCEPT ![task[t].order] = news]

-----------------------------------------------------------------------------
(* The window: routes, the keypair and the view. *)

\* The page left drops its signals and the continuations it spawned; the
\* balance page runs its effect when it is mounted.
GoTo(p) ==
    /\ p # page
    /\ page' = p /\ busy' = FALSE /\ drawn' = FALSE /\ effect' = (p = "balance")
    /\ task' = [t \in Tasks |->
                   IF task[t].at \in {"none"} \cup Resuming THEN Idle
                   ELSE [task[t] EXCEPT !.orphan = TRUE]]
    /\ UNCHANGED <<loaded, balance, client, mutex, told, chain>>

\* layout.rs shows another keypair, connection_status.rs none: neither keeps
\* the balance. Any other write to the wallet signal makes the effect due too.
SetKeypair(k) ==
    /\ loaded' = k /\ balance' = "none"
    /\ effect' = (page = "balance")
    /\ UNCHANGED <<page, busy, drawn, client, mutex, task, told, chain>>

StatusChanges ==
    /\ page = "balance" /\ effect' = TRUE
    /\ UNCHANGED <<page, loaded, balance, busy, drawn, client, mutex, task, told, chain>>

Render ==
    /\ drawn # busy /\ drawn' = busy
    /\ UNCHANGED <<page, loaded, balance, effect, busy, client, mutex, task, told, chain>>

-----------------------------------------------------------------------------
(* Clicks, each on a button the view drawn last still enables. *)

FetchBalance == Start("lock", "none") /\ busy' = TRUE

RunEffect ==
    /\ effect /\ effect' = FALSE
    /\ IF loaded # "none" /\ balance = "none"
         THEN FetchBalance
         ELSE UNCHANGED <<task, busy>>
    /\ UNCHANGED <<page, loaded, balance, drawn, client, mutex, told, chain>>

ClickRefresh ==
    /\ page = "balance" /\ ~drawn /\ loaded # "none"
    /\ FetchBalance
    /\ UNCHANGED <<page, loaded, balance, effect, drawn, client, mutex, told, chain>>

ClickOrder ==
    /\ page \in OrderPages /\ ~drawn /\ loaded # "none"
    /\ \E o \in Orders : Unasked(o)
    /\ LET o == CHOOSE o \in Orders : Unasked(o)
       IN /\ told' = [told EXCEPT ![o] = "approved"]
          /\ Start(IF page = "send" THEN "decrypt" ELSE "lock", o)
    /\ busy' = TRUE
    /\ UNCHANGED <<page, loaded, balance, effect, drawn, client, mutex, chain>>

-----------------------------------------------------------------------------
(* Closures. Each takes the mutex for all its requests. *)

FirstCall(t) ==
    IF task[t].at = "lockAgain" THEN "status"
    ELSE [balance |-> "getBalance", airdrop |-> "request", send |-> "blockhash"][task[t].kind]

Decrypt(t) ==
    /\ task[t].at = "decrypt"
    /\ Goto(t, "lock") \/ Goto(t, "aborted")
    /\ UNCHANGED <<window, client, mutex, told, chain>>

\* A fault: the mutex is released between requests, and not taken again.
TakeShared(t) ==
    /\ task[t].at \in {"lock", "lockAgain"}
    /\ client' = TRUE
    /\ Goto(t, FirstCall(t))
    /\ UNCHANGED <<window, mutex, told, chain>>

TakeClient(t) ==
    /\ task[t].at \in {"lock", "lockAgain"} /\ mutex = "none"
    /\ client' = TRUE /\ mutex' = t
    /\ Goto(t, FirstCall(t))
    /\ UNCHANGED <<window, told, chain>>

\* SolanaClient::new fails, on first use.
NoClient(t) ==
    /\ task[t].at = "lock" /\ mutex = "none" /\ ~client
    /\ Goto(t, [balance |-> "noBalance", airdrop |-> "aborted", send |-> "aborted"][task[t].kind])
    /\ UNCHANGED <<window, client, mutex, told, chain>>

GetBalance(t) ==
    /\ task[t].at = "getBalance"
    /\ mutex' = "none"
    /\ Goto(t, "fetched") \/ Goto(t, "noBalance")
    /\ UNCHANGED <<window, client, told, chain>>

\* get_latest_blockhash, and build_transfer from what it answered.
BuildTransfer(t) ==
    /\ task[t].at = "blockhash"
    /\ \/ Goto(t, "submit") /\ UNCHANGED mutex
       \/ Goto(t, "aborted") /\ mutex' = "none"
    /\ UNCHANGED <<window, client, told, chain>>

\* send_transaction and request_airdrop: no answer, an answer that refuses, or
\* a signature. What was sent may reach the node without an answer.
Send(t) ==
    /\ task[t].at \in {"submit", "request"}
    /\ mutex' = "none"
    /\ \/ /\ Goto(t, "failed")
          /\ \E reach \in {"none", "pending"} : chain' = [chain EXCEPT ![task[t].order] = reach]
       \/ /\ Goto(t, "signed")
          /\ chain' = [chain EXCEPT ![task[t].order] = "pending"]
    /\ UNCHANGED <<window, client, told>>

\* A fault: any status will do, "processed" as well.
GetStatusEarly(t) ==
    /\ task[t].at = "status"
    /\ mutex' = "none"
    /\ \/ Goto(t, "noStatus")
       \/ Goto(t, "undecided")
       \/ chain[task[t].order] # "none" /\ Goto(t, "confirmed")
    /\ UNCHANGED <<window, client, told, chain>>

\* get_signature_status: no answer, a status that decides nothing, or one that
\* reads confirmed or finalized, with or without an "err" next to it.
GetStatus(t) ==
    /\ task[t].at = "status"
    /\ mutex' = "none"
    /\ \/ Goto(t, "noStatus")
       \/ Goto(t, "undecided")
       \/ chain[task[t].order] \in {"ok", "failed"} /\ Goto(t, "confirmed")
    /\ UNCHANGED <<window, client, told, chain>>

-----------------------------------------------------------------------------
(* Continuations, on the UI thread. *)

ShowBalance(t) ==
    /\ task[t].at = "fetched"
    /\ EndTask(t)
    /\ balance' = task[t].key /\ effect' = TRUE /\ busy' = FALSE
    /\ UNCHANGED <<page, loaded, drawn, client, mutex, told, chain>>

ShowNoBalance(t) ==
    /\ task[t].at = "noBalance"
    /\ EndTask(t)
    /\ busy' = FALSE
    /\ UNCHANGED <<page, loaded, balance, effect, drawn, client, mutex, told, chain>>

\* A fault: an error is shown and the page left busy.
ShowErrorBusy(t) ==
    /\ task[t].at \in {"failed", "aborted"}
    /\ Tell(t, IF task[t].at = "aborted" THEN "aborted" ELSE "unknown")
    /\ EndTask(t)
    /\ UNCHANGED <<window, client, mutex, chain>>

ShowError(t) ==
    /\ task[t].at \in {"failed", "aborted"}
    /\ Tell(t, IF task[t].at = "aborted" THEN "aborted" ELSE "unknown")
    /\ EndTask(t)
    /\ busy' = FALSE
    /\ UNCHANGED <<page, loaded, balance, effect, drawn, client, mutex, chain>>

\* poll_confirmation: sleep, ask, and again.
ShowSignature(t) ==
    /\ task[t].at = "signed"
    /\ Tell(t, "submitted")
    /\ Goto(t, "asleep")
    /\ UNCHANGED <<window, client, mutex, chain>>

Wake(t) ==
    /\ task[t].at = "asleep"
    /\ Goto(t, "lockAgain")
    /\ UNCHANGED <<window, client, mutex, told, chain>>

\* A fault: the number of rounds is one more than the loop's.
PollOnceMore(t) ==
    /\ task[t].at = "undecided" /\ task[t].polls < MaxPolls
    /\ task' = [task EXCEPT ![t].at = "asleep", ![t].polls = @ + 1]
    /\ UNCHANGED <<window, client, mutex, told, chain>>

PollAgain(t) ==
    /\ task[t].at = "undecided" /\ task[t].polls + 1 < MaxPolls
    /\ task' = [task EXCEPT ![t].at = "asleep", ![t].polls = @ + 1]
    /\ UNCHANGED <<window, client, mutex, told, chain>>

GiveUp(t) ==
    /\ \/ task[t].at = "undecided" /\ task[t].polls + 1 = MaxPolls
       \/ task[t].at = "noStatus"
    /\ Tell(t, "unknown")
    /\ EndTask(t)
    /\ busy' = FALSE
    /\ UNCHANGED <<page, loaded, balance, effect, drawn, client, mutex, chain>>

ShowConfirmed(t) ==
    /\ task[t].at = "confirmed"
    /\ Tell(t, "confirmed")
    /\ EndTask(t)
    /\ balance' = "none" /\ busy' = FALSE
    /\ UNCHANGED <<page, loaded, effect, drawn, client, mutex, chain>>

-----------------------------------------------------------------------------
(* The cluster, an external system. *)

Execute(o) ==
    /\ chain[o] = "pending"
    /\ \E c \in {"ok", "failed", "none"} : chain' = [chain EXCEPT ![o] = c]
    /\ UNCHANGED <<window, client, mutex, task, told>>

-----------------------------------------------------------------------------
Window ==
    \/ \E p \in Pages : GoTo(p)
    \/ \E k \in Keypairs \cup {"none"} : SetKeypair(k)
    \/ StatusChanges \/ Render \/ RunEffect \/ ClickRefresh \/ ClickOrder

Closure(t) ==
    \/ Decrypt(t) \/ TakeClient(t) \/ NoClient(t)
    \/ GetBalance(t) \/ BuildTransfer(t) \/ Send(t) \/ GetStatus(t)

Continuation(t) ==
    \/ ShowBalance(t) \/ ShowNoBalance(t) \/ ShowError(t) \/ ShowSignature(t)
    \/ Wake(t) \/ PollAgain(t) \/ GiveUp(t) \/ ShowConfirmed(t)

Next ==
    \/ Window
    \/ \E t \in Tasks : Closure(t) \/ Continuation(t)
    \/ \E o \in Orders : Execute(o)

Spec == Init /\ [][Next]_vars

\* Requests time out (CURLOPT_TIMEOUT_MS), the pool's threads and the UI's
\* executor run. Nobody promises a click, a route or the cluster's answer.
FairSpec == Spec /\ \A t \in Tasks : WF_vars(Closure(t)) /\ WF_vars(Continuation(t))

-----------------------------------------------------------------------------
(* Properties *)

\* Two requests never share the client's curl handle and request id: of all
\* pages, with all their orphaned closures, one task at most is in a request.
OneRequestAtATime ==
    \A t, u \in Tasks : task[t].at \in Calling /\ task[u].at \in Calling => t = u

\* A page that shows "Sending...", "Requesting..." or "Fetching..." stops: by
\* an answer, an error on any step, or the last round of poll_confirmation.
BusyEnds == busy ~> ~busy

\* The window keeps the promises of Transfer as long as being executed is all
\* that is asked of a confirmed order, also when a page is left, entered again
\* and asked again while its first order is on the way: "Confirmation polling"
\* and a failed send leave the order open, an error before the send closes it.
executed == [o \in Orders |-> IF chain[o] \in {"ok", "failed"} THEN "ok" ELSE "no"]

T == INSTANCE Transfer WITH landed <- executed

KeepsPromisesIfExecuted == T!Spec

\* "Transaction confirmed!" (send_sol.rs:125) and "Airdrop confirmed!" are said
\* of an order that was carried out.
ConfirmedMeansCarriedOut == \A o \in Orders : told[o] = "confirmed" => chain[o] = "ok"
=============================================================================
