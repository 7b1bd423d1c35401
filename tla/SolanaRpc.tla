------------------------------- MODULE SolanaRpc -------------------------------
(***************************************************************************)
(* The JSON-RPC client of solana_client.c, under the two programs that use *)
(* it. The command line program makes a client for one menu option and     *)
(* cleans it up; the desktop wallet keeps one behind a mutex, made by the  *)
(* first task that needs it (ffi.rs).                                      *)
(*                                                                         *)
(* A task makes the calls of its plan one after the other. A call may run  *)
(* out of memory, lose the network, time out, or be answered with any HTTP *)
(* status; the answer arrives in pieces.                                   *)
(***************************************************************************)
EXTENDS Naturals, Sequences

CONSTANTS
    Tasks,       \* menu options, or the desktop's blocking tasks
    Plans,       \* the RPC methods they call, in order
    Nobody,
    MaxPieces,   \* a bound: pieces of an answer
    MaxRounds    \* a bound: tasks begun

Methods == {"getLatestBlockhash", "requestAirdrop", "getBalance",
            "getSignatureStatuses", "sendTransaction"}

ASSUME NobodyAssumption == Nobody \notin Tasks
ASSUME BoundsAssumption == MaxPieces \in Nat /\ MaxRounds \in Nat
ASSUME PlansAssumption == Plans \subseteq Seq(Methods)

VARIABLES
    wallet,    \* which program
    curl,      \* initialized and init_status, the statics of the client
    client,    \* whether there is one, and next_request_id
    owner,     \* the task that has the client
    plan,      \* the calls each task has still to make
    at,        \* where the owner is
    call,      \* the call under way: id, status, pieces of its answer, those arrived
    held,      \* what it has allocated: params, payload, handle, headers
    buffer,    \* the pieces received; Null is a null pointer
    handed,    \* out_response
    heap,      \* responses handed to the wallet and not freed
    rounds

vars == <<wallet, curl, client, owner, plan, at, call, held, buffer, handed, heap, rounds>>

Statuses == {"ok", "allocation", "curl", "http"}
WithResponse == {"ok", "http"}
Null == <<0>>
NoCall == [id |-> 0, status |-> "ok", pieces |-> 0, arrived |-> 0]
Places == {"out", "init", "params", "prepare", "perform", "conclude", "return", "took"}
OfRequest == {"payload", "handle", "headers"}
NoClient == [made |-> FALSE, next |-> 1]

Method == Head(plan[owner])

Init ==
    /\ wallet \in {"cli", "desktop"}
    /\ curl = [initialized |-> FALSE, status |-> "ok"]
    /\ client = NoClient
    /\ owner = Nobody
    /\ plan = [t \in Tasks |-> <<>>]
    /\ at = "out" /\ call = NoCall /\ held = {} /\ buffer = Null /\ handed = Null
    /\ heap = {} /\ rounds = 0

-----------------------------------------------------------------------------
(* The wallet takes the client, and gives it back *)

\* The command line program has one thread, the desktop as many tasks as the user
\* clicks.
Start(t) ==
    /\ plan[t] = <<>>
    /\ wallet = "cli" => \A u \in Tasks : plan[u] = <<>>
    /\ rounds < MaxRounds /\ rounds' = rounds + 1
    /\ \E p \in Plans : plan' = [plan EXCEPT ![t] = p]
    /\ UNCHANGED <<wallet, curl, client, owner, at, call, held, buffer, handed, heap>>

\* solana.lock()
Enter(t) ==
    /\ plan[t] # <<>>
    /\ owner = Nobody
    /\ owner' = t
    /\ at' = IF client.made THEN "params" ELSE "init"
    /\ UNCHANGED <<wallet, curl, client, plan, call, held, buffer, handed, heap, rounds>>

\* The end of an option, or of a task: the command line program frees the
\* responses it still has, and the client.
Leave(freed) ==
    /\ plan' = [plan EXCEPT ![owner] = <<>>]
    /\ owner' = Nobody
    /\ at' = "out" /\ call' = NoCall
    /\ IF wallet = "cli" THEN heap' = {} /\ client' = NoClient
       ELSE heap' = heap \ freed /\ UNCHANGED client

\* solana_client_init: curl_global_init is called once, and what came of it is
\* remembered; the URL is copied.
InitClient ==
    /\ at = "init"
    /\ \E result \in IF curl.initialized THEN {curl.status} ELSE {"ok", "curl"} :
       /\ curl' = [initialized |-> TRUE, status |-> result]
       /\ \/ /\ result = "ok"
             /\ client' = [made |-> TRUE, next |-> 1]
             /\ at' = "params"
             /\ UNCHANGED <<plan, owner, call, heap>>
          \/ Leave({})
    /\ UNCHANGED <<wallet, held, buffer, handed, rounds>>

-----------------------------------------------------------------------------
(* One call *)

GoTo(place) == at' = place /\ UNCHANGED <<wallet, curl, owner, plan, heap, rounds>>

\* The wrappers of every method but getLatestBlockhash allocate their parameters.
AllocParams ==
    /\ at = "params"
    /\ handed' = Null
    /\ \/ /\ held' = IF Method = "getLatestBlockhash" THEN {} ELSE {"params"}
          /\ call' = NoCall
          /\ GoTo("prepare")
       \/ /\ Method # "getLatestBlockhash"
          /\ call' = [NoCall EXCEPT !.status = "allocation"]
          /\ GoTo("return")
          /\ UNCHANGED held
    /\ UNCHANGED <<client, buffer>>

\* solana_client_rpc_request up to curl_easy_perform: the id is taken, then the
\* payload, the handle and the headers are had, or one of them is not.
Prepare ==
    /\ at = "prepare"
    /\ client' = [client EXCEPT !.next = @ + 1]
    /\ \/ /\ held' = held \cup OfRequest
          /\ \E n \in 0..MaxPieces : call' = [NoCall EXCEPT !.id = client.next, !.pieces = n]
          /\ GoTo("perform")
       \/ /\ \E had \in {{}, {"payload"}, {"payload", "handle"}} :
             /\ held' = held \cup had
             /\ call' = [NoCall EXCEPT !.id = client.next,
                                       !.status = IF had = {"payload"} THEN "curl" ELSE "allocation"]
          /\ GoTo("conclude")
    /\ UNCHANGED <<buffer, handed>>

Received == IF buffer = Null THEN <<>> ELSE buffer
PieceComes == at = "perform" /\ call.arrived < call.pieces
Piece == call.arrived + 1

PerformEnds(status) ==
    /\ call' = [call EXCEPT !.status = status]
    /\ GoTo("conclude")
    /\ UNCHANGED <<client, held, buffer, handed>>

\* A fault: the callback says it took a piece that it had no memory for.
WriteCallbackTrusting ==
    /\ PieceComes
    /\ buffer' \in {buffer, Append(Received, Piece)}
    /\ call' = [call EXCEPT !.arrived = @ + 1]
    /\ GoTo("perform")
    /\ UNCHANGED <<client, held, handed>>

\* solana_write_callback: without memory it takes nothing, and curl gives up.
WriteCallback ==
    /\ PieceComes
    /\ \/ /\ buffer' = Append(Received, Piece)
          /\ call' = [call EXCEPT !.arrived = @ + 1]
          /\ GoTo("perform")
          /\ UNCHANGED <<client, held, handed>>
       \/ PerformEnds("curl")

\* A fault: the HTTP status is returned as it is.
AnsweredRaw ==
    /\ at = "perform" /\ ~PieceComes
    /\ \E status \in {"ok", "500"} : PerformEnds(status)

\* curl_easy_perform is CURLE_OK when the whole answer came.
Answered ==
    /\ at = "perform" /\ ~PieceComes
    /\ \E status \in WithResponse : PerformEnds(status)

\* A fault: a request has no time-out.
TransferWaits == FALSE /\ PerformEnds("curl")

\* No route, a broken connection, or CURLOPT_TIMEOUT_MS.
TransferFails == at = "perform" /\ PerformEnds("curl")

\* A fault: an error returns at once.
ConcludeAtOnce ==
    /\ at = "conclude"
    /\ IF call.status \in WithResponse
       THEN held' = held \ OfRequest /\ handed' = Received
       ELSE UNCHANGED <<held, handed>>
    /\ buffer' = Null
    /\ GoTo("return")
    /\ UNCHANGED <<call, client>>

\* An answer with no body becomes an empty string, if there is memory for it. What
\* was received is handed over, also with an HTTP error, or freed.
Conclude ==
    /\ at = "conclude"
    /\ held' = held \ OfRequest
    /\ buffer' = Null
    /\ \/ call.status \in WithResponse /\ handed' = Received /\ UNCHANGED call
       \/ /\ call.status \in WithResponse /\ buffer = Null
          /\ call' = [call EXCEPT !.status = "allocation"]
          /\ UNCHANGED handed
       \/ call.status \notin WithResponse /\ UNCHANGED <<call, handed>>
    /\ GoTo("return")
    /\ UNCHANGED client

\* The wrapper frees its parameters; a response is the caller's from here on.
Return ==
    /\ at = "return"
    /\ held' = held \ {"params"}
    /\ heap' = IF handed = Null THEN heap
               ELSE heap \cup {[id |-> call.id, by |-> owner, status |-> call.status]}
    /\ at' = "took"
    /\ UNCHANGED <<wallet, curl, client, owner, plan, call, buffer, handed, rounds>>

-----------------------------------------------------------------------------
(* What the callers do with the response *)

Mine == {r \in heap : r.by = owner /\ r.id = call.id}
IsPoll == Method = "getSignatureStatuses"

\* A fault: the answer to a call that is not the last is read in place.
FreedAtLast == IF Len(plan[owner]) = 1 /\ call.status = "ok" THEN Mine ELSE {}

\* ffi.rs: solana_result returns before consume_response, which frees. main.c: a
\* poll's response, and an airdrop's that succeeded, are freed at once, every other
\* at the end of the option.
Freed ==
    IF IF wallet = "desktop" THEN call.status = "ok"
       ELSE IsPoll \/ (Method = "requestAirdrop" /\ call.status = "ok")
    THEN Mine ELSE {}

\* After a success comes the next call; so it does, on the command line, after a
\* poll that failed.
Proceed ==
    /\ at = "took"
    /\ call.status = "ok" \/ (wallet = "cli" /\ IsPoll)
    /\ Len(plan[owner]) > 1
    /\ plan' = [plan EXCEPT ![owner] = Tail(@)]
    /\ heap' = heap \ Freed
    /\ handed' = Null
    /\ at' = "params"
    /\ UNCHANGED <<wallet, curl, client, owner, call, held, buffer, rounds>>

\* The last call, an error, an answer that does not parse, or a poll that settles it.
Stop ==
    /\ at = "took"
    /\ handed' = Null
    /\ Leave(Freed)
    /\ UNCHANGED <<wallet, curl, held, buffer, rounds>>

-----------------------------------------------------------------------------
Local == InitClient \/ AllocParams \/ Prepare \/ TransferFails \/ Conclude \/ Return \/ Proceed \/ Stop

Network == WriteCallback \/ Answered

Next == (\E t \in Tasks : Start(t) \/ Enter(t)) \/ Local \/ Network

Spec == Init /\ [][Next]_vars

\* The program's own steps happen, the time-out among them; an answer need not come.
FairSpec == Spec /\ WF_vars(Local)

-----------------------------------------------------------------------------
Calls == [id : Nat, status : Statuses, pieces : Nat, arrived : Nat]
Responses == [id : Nat, by : Tasks, status : Statuses]

TypeOK ==
    /\ wallet \in {"cli", "desktop"}
    /\ curl \in [initialized : BOOLEAN, status : {"ok", "curl"}]
    /\ client \in [made : BOOLEAN, next : Nat]
    /\ owner \in Tasks \cup {Nobody}
    /\ plan \in [Tasks -> Seq(Methods)]
    /\ at \in Places
    /\ call \in Calls
    /\ held \subseteq OfRequest \cup {"params"}
    /\ buffer \in Seq(Nat) /\ handed \in Seq(Nat)
    /\ heap \subseteq Responses
    /\ rounds \in Nat

\* Whatever fails, a call that is over has freed its parameters, its payload, its
\* handle, its headers and its buffer (rpc_request and the wrappers).
InCall == {"prepare", "perform", "conclude", "return"}
NothingHeld == at \notin InCall => held = {} /\ buffer = Null

\* A response is handed over whole or not at all: when rpc_request returns OK or an
\* HTTP error, out_response has every piece of the answer, in order; with any other
\* status it is null.
WholeAnswer ==
    at \in {"return", "took"} =>
        handed = IF call.status \in WithResponse THEN [i \in 1..call.pieces |-> i] ELSE Null

\* Every response the wallet was handed is freed: on the command line by the end of
\* the option, in the desktop wallet before the next call, except that the desktop
\* never frees one that came with an HTTP error (solana_result, consume_response).
Unfreed ==
    \A r \in heap :
        \/ wallet = "desktop" /\ r.status = "http"
        \/ r.by = owner /\ (wallet = "cli" \/ at = "took")

\* A task lets the client go: the others, and the buttons that wait for them, are
\* not held for ever by a node that does not answer.
ClientIsLetGo == owner # Nobody ~> owner = Nobody
=============================================================================
