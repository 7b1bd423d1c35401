------------------------------ MODULE WalletCli ------------------------------
(***************************************************************************)
(* The five options of the menu of src/main.c, from the choice to the      *)
(* return to the menu: the prompts, the wallet in the calculator's string  *)
(* variable, the secrets in the program's buffers, the JSON-RPC requests   *)
(* and the loop that waits for a signature's status.                       *)
(*                                                                         *)
(* The calculator is free for the menu's transfers (CliMain). A wallet is  *)
(* written here as the password that opens it. An order is one transaction *)
(* the user asked for; two orders never share a signature, because each    *)
(* fetches its own blockhash.                                              *)
(***************************************************************************)
EXTENDS Naturals

CONSTANTS
    Slots,        \* the string variables Str0..Str9
    Passwords,
    Orders,
    MaxAttempts   \* polls of wait_for_signature_confirmation: 60, or 30

ASSUME AttemptsAssumption == MaxAttempts \in Nat \ {0}
ASSUME ContentAssumption == {"missing", "other", "none"} \cap Passwords = {}
ASSUME OrdersAssumption == "none" \notin Orders

VARIABLES
    at,       \* the step the program is at
    flow,     \* the menu option it serves
    store,    \* the calculator's string variables
    slot,     \* the variable chosen when a keypair is created
    wallet,   \* the payload read from the calculator
    typed,    \* the password in the buffer
    held,     \* the secrets the program's buffers hold
    order,    \* the order being served
    attempt,  \* polls made so far
    told,     \* what the user was told last about each order
    chain     \* each order on the network

program == <<at, flow, slot, wallet, typed, held, order, attempt>>
vars == <<program, store, told, chain>>

Flows == {"create", "load", "airdrop", "balance", "send"}
Wallets == Passwords
Contents == {"missing", "other"} \cup Wallets   \* "other": not a stored wallet
Secrets == {"password", "confirmation", "key"}

Prompting == {"menu", "slot", "password", "confirmation", "generate", "store", "fetch",
              "ask", "loadPassword", "loadDecrypt", "loadCheck", "amount", "details",
              "sendPassword", "sendDecrypt"}
Network == {"client", "balance", "blockhash", "build", "submit", "request", "await"}

Told == {"nothing", "approved", "submitted", "aborted", "confirmed", "failed",
         "sendFailed", "rejected", "timedOut"}
Chain == {"none", "pending", "dropped", "ok", "failed"}

TypeOK ==
    /\ at \in Prompting \cup Network
    /\ flow \in Flows \cup {"none"}
    /\ store \in [Slots -> Contents]
    /\ slot \in Slots \cup {"none"}
    /\ wallet \in Wallets \cup {"none"}
    /\ typed \in Passwords \cup {"none"}
    /\ held \in SUBSET Secrets
    /\ order \in Orders \cup {"none"}
    /\ attempt \in 0..(MaxAttempts - 1)
    /\ told \in [Orders -> Told]
    /\ chain \in [Orders -> Chain]

Init ==
    /\ at = "menu" /\ flow = "none" /\ slot = "none" /\ wallet = "none"
    /\ typed = "none" /\ held = {} /\ order = "none" /\ attempt = 0
    /\ store \in [Slots -> Contents]
    /\ told = [o \in Orders |-> "nothing"]
    /\ chain = [o \in Orders |-> "none"]

-----------------------------------------------------------------------------
(* Every option ends the same way: its buffers are zeroed, its responses   *)
(* freed, the client cleaned up, and the menu prints the status.           *)

\* A fault: the buffers keep what they hold.
BackWithSecrets ==
    /\ at' = "menu" /\ flow' = "none" /\ slot' = "none" /\ wallet' = "none"
    /\ order' = "none" /\ attempt' = 0
    /\ UNCHANGED <<typed, held>>

BackToMenu ==
    /\ at' = "menu" /\ flow' = "none" /\ slot' = "none" /\ wallet' = "none"
    /\ typed' = "none" /\ held' = {} /\ order' = "none" /\ attempt' = 0

Leave == BackToMenu /\ UNCHANGED <<told, chain, store>>

\* ... and for an option that had an order, with what the user reads about it.
Answer(news) ==
    /\ BackToMenu
    /\ told' = IF order = "none" THEN told ELSE [told EXCEPT ![order] = news]

GoOn(step) == at' = step /\ UNCHANGED <<flow, slot, wallet, order, attempt>>

\* A bound: the menu serves airdrops and transfers while Orders last.
Choose(f) ==
    /\ at = "menu"
    /\ f \in {"airdrop", "send"} => \E o \in Orders : told[o] = "nothing"
    /\ flow' = f
    /\ at' = IF f = "create" THEN "slot" ELSE "fetch"
    /\ UNCHANGED <<slot, wallet, typed, held, order, attempt, store, told, chain>>

-----------------------------------------------------------------------------
(* create_encrypted_keypair *)

ChooseSlot ==
    /\ at = "slot"
    /\ \/ Leave
       \/ /\ \E s \in Slots : slot' = s
          /\ at' = "password"
          /\ UNCHANGED <<flow, wallet, typed, held, order, attempt, store, told, chain>>

EnterPassword ==
    /\ at = "password"
    /\ \/ Leave
       \/ /\ \E p \in Passwords : typed' = p
          /\ held' = {"password"}
          /\ GoOn("confirmation")
          /\ UNCHANGED <<store, told, chain>>

ConfirmPassword ==
    /\ at = "confirmation"
    /\ \/ Leave
       \/ \E again \in Passwords :
             /\ again = typed
             /\ held' = held \cup {"confirmation"}
             /\ GoOn("generate")
             /\ UNCHANGED <<typed, store, told, chain>>

Generate ==
    /\ at = "generate"
    /\ \/ Leave
       \/ /\ held' = held \cup {"key"}
          /\ GoOn("store")
          /\ UNCHANGED <<typed, store, told, chain>>

\* The variable is replaced without a look at what it holds. A transfer that
\* fails leaves it old, new or deleted; one that the calculator skips leaves
\* it old and counts as done.
StoreWallet ==
    /\ at = "store"
    /\ BackToMenu
    /\ \E content \in {store[slot], typed, "missing"} :
          store' = [store EXCEPT ![slot] = content]
    /\ UNCHANGED <<told, chain>>

-----------------------------------------------------------------------------
(* fetch_wallet_payload, and load_encrypted_keypair. *)

AfterFetch ==
    [load |-> "ask", airdrop |-> "amount", balance |-> "client", send |-> "details"]

Fetch ==
    /\ at = "fetch"
    /\ \/ Leave     \* cancelled, the transfer failed, or no wallet in the variable
       \/ \E s \in Slots :
             /\ store[s] \in Wallets
             /\ wallet' = store[s]
             /\ at' = AfterFetch[flow]
             /\ UNCHANGED <<flow, slot, typed, held, order, attempt, store, told, chain>>

AskVerify ==
    /\ at = "ask"
    /\ \/ Leave
       \/ GoOn("loadPassword") /\ UNCHANGED <<typed, held, store, told, chain>>

TypePassword(here, next) ==
    /\ at = here
    /\ \/ Leave
       \/ /\ \E p \in Passwords : typed' = p
          /\ held' = {"password"}
          /\ GoOn(next)
          /\ UNCHANGED <<store, told, chain>>

LoadPassword == TypePassword("loadPassword", "loadDecrypt")

LoadDecrypt ==
    /\ at = "loadDecrypt"
    /\ \/ typed # wallet /\ Leave
       \/ /\ typed = wallet
          /\ held' = held \cup {"key"}
          /\ GoOn("loadCheck")
          /\ UNCHANGED <<typed, store, told, chain>>

\* A key that does not derive the stored public key is printed as a mismatch
\* and loaded all the same.
LoadCheck == at = "loadCheck" /\ Leave

-----------------------------------------------------------------------------
(* Orders: the airdrop's amount, or the transfer's details and password. *)

Approve ==
    \E o \in Orders :
        /\ told[o] = "nothing"
        /\ order' = o
        /\ told' = [told EXCEPT ![o] = "approved"]

AirdropAmount ==
    /\ at = "amount"
    /\ \/ Leave
       \/ /\ Approve
          /\ at' = "client"
          /\ UNCHANGED <<flow, slot, wallet, typed, held, attempt, store, chain>>

SendDetails ==
    /\ at = "details"
    /\ \/ Leave
       \/ GoOn("sendPassword") /\ UNCHANGED <<typed, held, store, told, chain>>

SendPassword == TypePassword("sendPassword", "sendDecrypt")

\* The password is zeroed as soon as it has been used, right or wrong.
SendDecrypt ==
    /\ at = "sendDecrypt"
    /\ \/ typed # wallet /\ Leave
       \/ /\ typed = wallet
          /\ Approve
          /\ typed' = "none" /\ held' = {"key"}
          /\ at' = "client"
          /\ UNCHANGED <<flow, slot, wallet, attempt, store, chain>>

-----------------------------------------------------------------------------
(* Requests to the node. A request fails when curl fails or times out, or  *)
(* on an HTTP status other than 2xx; a JSON-RPC error in a 200 answer is   *)
(* no failure of the request.                                              *)

AfterInit == [airdrop |-> "request", balance |-> "balance", send |-> "blockhash"]

InitClient ==
    /\ at = "client"
    /\ \/ Answer("aborted") /\ UNCHANGED <<chain, store>>
       \/ GoOn(AfterInit[flow]) /\ UNCHANGED <<typed, held, store, told, chain>>

GetBalance == at = "balance" /\ Leave

GetBlockhash ==
    /\ at = "blockhash"
    /\ \/ Answer("aborted") /\ UNCHANGED <<chain, store>>
       \/ GoOn("build") /\ UNCHANGED <<typed, held, store, told, chain>>

\* A fault: the key is zeroed with the other buffers, at the end only.
BuildKeepingKey ==
    /\ at = "build"
    /\ \/ Answer("aborted") /\ UNCHANGED <<chain, store>>
       \/ GoOn("submit") /\ UNCHANGED <<typed, held, store, told, chain>>

\* The private key is zeroed whether or not the transaction could be built.
BuildTransaction ==
    /\ at = "build"
    /\ \/ Answer("aborted") /\ UNCHANGED <<chain, store>>
       \/ held' = {} /\ GoOn("submit") /\ UNCHANGED <<typed, store, told, chain>>

\* A request whose answer is lost may have reached the node or still reach it.
Reach(c) == chain' = [chain EXCEPT ![order] = c]

RequestFails ==
    /\ Answer("sendFailed")
    /\ Reach("none") \/ Reach("pending")

Await ==
    /\ told' = [told EXCEPT ![order] = "submitted"]
    /\ GoOn("await")
    /\ UNCHANGED <<typed, held>>

\* send_response is not looked at: an answer that refuses the transaction
\* counts as one that accepts it.
Submit ==
    /\ at = "submit"
    /\ RequestFails \/ (Await /\ (Reach("none") \/ Reach("pending")))
    /\ UNCHANGED store

RequestAirdrop ==
    /\ at = "request"
    /\ \/ RequestFails
       \/ Answer("rejected") /\ Reach("none")    \* no "result" in the answer
       \/ Await /\ Reach("pending")
    /\ UNCHANGED store

\* Faults: "finalized" is looked for before "err"; a round that decides nothing
\* is not counted; the last round is not the last.
PollErrLast ==
    /\ at = "await"
    /\ \/ chain[order] \in {"ok", "failed"} /\ Answer("confirmed")
       \/ attempt + 1 >= MaxAttempts /\ Answer("timedOut")
       \/ /\ attempt + 1 < MaxAttempts
          /\ attempt' = attempt + 1
          /\ UNCHANGED <<at, flow, slot, wallet, typed, held, order, told>>
    /\ UNCHANGED <<chain, store>>

PollUncounted ==
    /\ at = "await"
    /\ \/ chain[order] = "failed" /\ Answer("failed")
       \/ chain[order] = "ok" /\ Answer("confirmed")
       \/ UNCHANGED <<program, told>>
    /\ UNCHANGED <<chain, store>>

PollOnceMore ==
    /\ at = "await"
    /\ \/ chain[order] = "failed" /\ Answer("failed")
       \/ chain[order] = "ok" /\ Answer("confirmed")
       \/ attempt >= MaxAttempts /\ Answer("timedOut")
       \/ /\ attempt < MaxAttempts
          /\ attempt' = attempt + 1
          /\ UNCHANGED <<at, flow, slot, wallet, typed, held, order, told>>
    /\ UNCHANGED <<chain, store>>

\* One round of wait_for_signature_confirmation. The node answers with the
\* signature's outcome, or with nothing that decides (status unknown, not yet
\* confirmed, a JSON-RPC error), or the request fails.
Poll ==
    /\ at = "await"
    /\ \/ chain[order] = "failed" /\ Answer("failed")
       \/ chain[order] = "ok" /\ Answer("confirmed")
       \/ attempt + 1 >= MaxAttempts /\ Answer("timedOut")
       \/ /\ attempt + 1 < MaxAttempts
          /\ attempt' = attempt + 1
          /\ UNCHANGED <<at, flow, slot, wallet, typed, held, order, told>>
    /\ UNCHANGED <<chain, store>>

-----------------------------------------------------------------------------
(* The cluster, an external system. *)

Execute(o) ==
    /\ chain[o] = "pending"
    /\ \E c \in {"ok", "failed", "dropped"} : chain' = [chain EXCEPT ![o] = c]
    /\ UNCHANGED <<program, store, told>>

-----------------------------------------------------------------------------
User ==
    \/ \E f \in Flows : Choose(f)
    \/ ChooseSlot \/ EnterPassword \/ ConfirmPassword
    \/ Fetch \/ AskVerify \/ LoadPassword
    \/ AirdropAmount \/ SendDetails \/ SendPassword

Program ==
    \/ Generate \/ StoreWallet \/ LoadDecrypt \/ LoadCheck \/ SendDecrypt
    \/ InitClient \/ GetBalance \/ GetBlockhash \/ BuildTransaction
    \/ Submit \/ RequestAirdrop \/ Poll

Cluster == \E o \in Orders : Execute(o)

Next == User \/ Program \/ Cluster

Spec == Init /\ [][Next]_vars

\* The program's own steps are taken: each request has a timeout
\* (CURLOPT_TIMEOUT_MS), and so has each transfer of the calculator. The user
\* may walk away at any prompt, and the cluster may never execute an order.
FairSpec == Spec /\ WF_vars(Program)

-----------------------------------------------------------------------------
(* Properties *)

\* No secret outlives its use: none is left in a buffer once the menu is
\* back, on any path through an option, and while the program talks to the
\* network only the private key that signs is still there, until the
\* transaction is built and before anything is submitted.
SecretsErased ==
    /\ at = "menu" => held = {} /\ typed = "none"
    /\ at \in Network => typed = "none" /\ held \subseteq {"key"}
    /\ at \in {"balance", "request", "submit", "await"} => held = {}

\* Waiting for the network ends: from the moment an order or a balance needs
\* the node, the menu comes back, whatever is lost on the way.
NetworkPhaseEnds == at \in Network ~> at = "menu"

\* The wallet keeps the promises of Transfer: an order lands at most once and
\* only if it was approved and not called off, and "confirmed" and "failed"
\* are true. "sendTransaction RPC call failed", an airdrop answer without a
\* result and a time-out are all "unknown": the order may still land.
landedSoFar ==
    [o \in Orders |-> IF chain[o] \in {"ok", "failed"} THEN chain[o] ELSE "no"]
toldSoFar ==
    [o \in Orders |->
        IF told[o] \in {"sendFailed", "rejected", "timedOut"} THEN "unknown" ELSE told[o]]

T == INSTANCE Transfer WITH landed <- landedSoFar, told <- toldSoFar

KeepsPromises == T!Spec

\* "Transaction submitted. Signature: ..." (src/main.c:1692) is said of a
\* transaction the node has taken.
SubmittedMeansAccepted ==
    \A o \in Orders : told[o] = "submitted" => chain[o] # "none"
=============================================================================
