--------------------------- MODULE SolanaRpc_proofs ---------------------------
(***************************************************************************)
(* For any number of tasks, any plans and answers of any length: what a    *)
(* call of the RPC client allocates it frees, what it hands over is whole, *)
(* and what the wallet never frees is what came with an HTTP error.        *)
(***************************************************************************)
EXTENDS SolanaRpc, SequenceTheorems, TLAPS

USE NobodyAssumption, BoundsAssumption, PlansAssumption

-----------------------------------------------------------------------------
(* Types. A task that has the client has a call to make. *)

HasCall == (owner = Nobody <=> at = "out") /\ (owner # Nobody => plan[owner] # <<>>)

Typed == TypeOK /\ HasCall

Clients == [made : BOOLEAN, next : Nat]

LEMMA StatusSet == ASSUME NEW c \in Calls, NEW s \in Statuses PROVE [c EXCEPT !.status = s] \in Calls
    BY DEF Calls
LEMMA PieceCounted == ASSUME NEW c \in Calls PROVE [c EXCEPT !.arrived = @ + 1] \in Calls
    BY DEF Calls
LEMMA Prepared == ASSUME NEW i \in Nat, NEW n \in Nat, NEW s \in Statuses
                  PROVE /\ [NoCall EXCEPT !.id = i, !.pieces = n] \in Calls
                        /\ [NoCall EXCEPT !.id = i, !.status = s] \in Calls
    BY DEF Calls, NoCall, Statuses
LEMMA NoCallTyped == NoCall \in Calls
    BY DEF Calls, NoCall, Statuses
LEMMA IdTaken == ASSUME NEW c \in Clients PROVE [c EXCEPT !.next = @ + 1] \in Clients /\ c.next \in Nat
    BY DEF Clients
LEMMA Shortened == ASSUME NEW s \in Seq(Methods), Len(s) > 1 PROVE Tail(s) \in Seq(Methods) /\ Tail(s) # <<>>
    <1>1. Len(Tail(s)) = Len(s) - 1 /\ Len(s) \in Nat /\ Tail(s) \in Seq(Methods) BY HeadTailProperties, EmptySeq
    <1>2. Len(Tail(s)) > 0 BY <1>1
    <1>3. ASSUME Tail(s) = <<>> PROVE FALSE
        <2>1. Len(<<>>) = 0 BY EmptySeq
        <2>2. Len(Tail(s)) = Len(<<>>) BY ONLY <1>3, Zenon
        <2> QED BY ONLY <1>2, <2>1, <2>2
    <1> QED BY <1>1, <1>3
LEMMA Lengthened == ASSUME NEW s \in Seq(Nat), NEW n \in Nat PROVE Append(s, n) \in Seq(Nat)
    OBVIOUS

LEMMA TypedInit == Init => Typed
  <1> SUFFICES ASSUME Init PROVE Typed OBVIOUS
  <1>1. plan \in [Tasks -> Seq(Methods)] BY DEF Init
  <1>2. buffer \in Seq(Nat) /\ handed \in Seq(Nat) BY DEF Init, Null
  <1>3. call \in Calls BY DEF Init, NoCall, Calls, Statuses
  <1> QED BY <1>1, <1>2, <1>3 DEF Init, Typed, TypeOK, HasCall, NoClient, Places

LEMMA LeaveTyped ==
    ASSUME Typed, owner # Nobody, NEW freed, Leave(freed)
    PROVE /\ plan' \in [Tasks -> Seq(Methods)] /\ owner' = Nobody /\ at' = "out"
          /\ call' \in Calls /\ heap' \subseteq Responses /\ client' \in Clients
  <1>1. call' \in Calls BY NoCallTyped DEF Leave
  <1>2. plan' \in [Tasks -> Seq(Methods)]
    <2>1. plan \in [Tasks -> Seq(Methods)] BY DEF Typed, TypeOK
    <2>2. <<>> \in Seq(Methods) OBVIOUS
    <2> QED BY <2>1, <2>2 DEF Leave
  <1>3. client \in Clients /\ heap \subseteq Responses BY DEF Typed, TypeOK, Clients
  <1>4. NoClient \in Clients BY DEF NoClient, Clients
  <1>5. client' \in Clients BY <1>3, <1>4 DEF Leave
  <1>6. heap' \subseteq Responses BY <1>3 DEF Leave
  <1> QED BY <1>1, <1>2, <1>5, <1>6 DEF Leave

LEMMA TypedStep == Typed /\ [Next]_vars => Typed'
  <1> SUFFICES ASSUME Typed, [Next]_vars PROVE Typed' OBVIOUS
  <1> USE DEF Typed, TypeOK, HasCall
  <1>t. owner # Nobody => plan[owner] \in Seq(Methods) /\ plan[owner] # <<>> OBVIOUS
  <1>1. ASSUME NEW t \in Tasks, Start(t) PROVE Typed' BY <1>1 DEF Start
  <1>2. ASSUME NEW t \in Tasks, Enter(t) PROVE Typed' BY <1>2 DEF Enter, Places
  <1>3. CASE InitClient
    <2>0. owner # Nobody BY <1>3 DEF InitClient
    <2>1. PICK result \in IF curl.initialized THEN {curl.status} ELSE {"ok", "curl"} :
             /\ curl' = [initialized |-> TRUE, status |-> result]
             /\ \/ /\ result = "ok"
                   /\ client' = [made |-> TRUE, next |-> 1]
                   /\ at' = "params"
                   /\ UNCHANGED <<plan, owner, call, heap>>
                \/ Leave({})
      BY <1>3 DEF InitClient
    <2>2. curl' \in [initialized : BOOLEAN, status : {"ok", "curl"}] BY <2>1
    <2>3. UNCHANGED <<wallet, held, buffer, handed, rounds>> BY <1>3 DEF InitClient
    <2>4. CASE at' = "params" /\ client' = [made |-> TRUE, next |-> 1] /\ UNCHANGED <<plan, owner, call, heap>>
      BY <2>0, <2>2, <2>3, <2>4 DEF Places
    <2>5. CASE Leave({})
      BY <2>0, <2>2, <2>3, <2>5, LeaveTyped DEF Places, Clients
    <2> QED BY <2>1, <2>4, <2>5
  <1>4. CASE AllocParams
    <2>1. call' \in Calls BY <1>4, NoCallTyped, StatusSet DEF AllocParams, Statuses
    <2>2. handed' \in Seq(Nat) BY <1>4 DEF AllocParams, Null
    <2> QED BY <1>4, <2>1, <2>2 DEF AllocParams, GoTo, Places
  <1>5. CASE Prepare
    <2>0. client \in Clients /\ call \in Calls BY DEF Clients
    <2>1. call' \in Calls
      <3>1. client.next \in Nat BY <2>0, IdTaken
      <3>2. CASE \E n \in 0..MaxPieces : call' = [NoCall EXCEPT !.id = client.next, !.pieces = n]
        <4>1. PICK n \in 0..MaxPieces : call' = [NoCall EXCEPT !.id = client.next, !.pieces = n] BY <3>2
        <4>2. n \in Nat /\ "ok" \in Statuses BY BoundsAssumption DEF Statuses
        <4> QED BY <4>1, <4>2, <3>1, Prepared
      <3>3. CASE \E had \in {{}, {"payload"}, {"payload", "handle"}} :
                   call' = [NoCall EXCEPT !.id = client.next,
                                          !.status = IF had = {"payload"} THEN "curl" ELSE "allocation"]
        <4>1. PICK s \in Statuses : call' = [NoCall EXCEPT !.id = client.next, !.status = s]
          BY <3>3 DEF Statuses
        <4> QED BY <4>1, <3>1, Prepared
      <3> QED BY <1>5, <3>2, <3>3 DEF Prepare
    <2>2. held' \subseteq OfRequest \cup {"params"} BY <1>5 DEF Prepare, OfRequest
    <2>3. client' \in [made : BOOLEAN, next : Nat] BY <1>5, <2>0, IdTaken DEF Prepare, Clients
    <2> QED BY <1>5, <2>1, <2>2, <2>3 DEF Prepare, GoTo, Places
  <1>6. CASE TransferFails
    <2>1. call' \in Calls BY <1>6, StatusSet DEF TransferFails, PerformEnds, Statuses
    <2> QED BY <1>6, <2>1 DEF TransferFails, PerformEnds, GoTo, Places
  <1>7. CASE Conclude
    <2>1. call' \in Calls BY <1>7, StatusSet DEF Conclude, Statuses
    <2>2. Received \in Seq(Nat) BY DEF Received
    <2>3. buffer' \in Seq(Nat) /\ handed' \in Seq(Nat) BY <1>7, <2>2 DEF Conclude, Null
    <2> QED BY <1>7, <2>1, <2>3 DEF Conclude, GoTo, Places
  <1>8. CASE Return
    <2>1. [id |-> call.id, by |-> owner, status |-> call.status] \in Responses
      BY <1>8 DEF Return, Calls, Responses
    <2> QED BY <1>8, <2>1 DEF Return, Places
  <1>9. CASE Proceed
    <2>1. owner \in Tasks /\ plan[owner] \in Seq(Methods) /\ Len(plan[owner]) > 1 BY <1>9 DEF Proceed
    <2>2. Tail(plan[owner]) \in Seq(Methods) /\ Tail(plan[owner]) # <<>> BY <2>1, Shortened
    <2>3. handed' \in Seq(Nat) BY <1>9 DEF Proceed, Null
    <2> QED BY <1>9, <2>1, <2>2, <2>3 DEF Proceed, Places
  <1>10. CASE Stop
    <2>1. owner # Nobody BY <1>10 DEF Stop
    <2>2. handed' \in Seq(Nat) BY <1>10 DEF Stop, Null
    <2> QED BY <1>10, <2>1, <2>2, LeaveTyped DEF Stop, Places, Clients
  <1>11. CASE WriteCallback
    <2>1. Received \in Seq(Nat) /\ Piece \in Nat BY DEF Received, Piece, Calls
    <2>2. buffer' \in Seq(Nat)
      <3>1. CASE buffer' = Append(Received, Piece) BY <3>1, <2>1, Lengthened
      <3>2. CASE buffer' = buffer BY <3>2
      <3> QED BY <1>11, <3>1, <3>2 DEF WriteCallback, PerformEnds
    <2>3. call' \in Calls BY <1>11, StatusSet, PieceCounted DEF WriteCallback, PerformEnds, Statuses
    <2> QED BY <1>11, <2>2, <2>3 DEF WriteCallback, PieceComes, PerformEnds, GoTo, Places
  <1>12. CASE Answered
    <2>1. call' \in Calls BY <1>12, StatusSet DEF Answered, PerformEnds, WithResponse, Statuses
    <2> QED BY <1>12, <2>1 DEF Answered, PerformEnds, GoTo, Places
  <1>13. CASE UNCHANGED vars BY <1>13 DEF vars
  <1> QED BY <1>1, <1>2, <1>3, <1>4, <1>5, <1>6, <1>7, <1>8, <1>9, <1>10, <1>11, <1>12, <1>13
          DEF Next, Local, Network

\* Every reachable state has its types, whichever wallet runs, however many tasks
\* share the client.
THEOREM TypeCorrect == Spec => []TypeOK
  <1>1. Spec => []Typed BY TypedInit, TypedStep, PTL DEF Spec
  <1>2. Typed => TypeOK BY DEF Typed
  <1> QED BY <1>1, <1>2, PTL

-----------------------------------------------------------------------------
(* The call under way: what it holds, what it has received, what it hands over. *)

Whole(n) == [i \in 1..n |-> i]
Pieces(n) == IF n = 0 THEN Null ELSE Whole(n)

HeldInCall ==
    /\ at \notin InCall => held = {} /\ buffer = Null
    /\ at = "prepare" => held \subseteq {"params"} /\ buffer = Null
    /\ at = "return" => held \subseteq {"params"} /\ buffer = Null

Receiving ==
    /\ at \in {"prepare", "perform", "conclude"} => handed = Null
    /\ at = "perform" => call.arrived <= call.pieces /\ buffer = Pieces(call.arrived)
    /\ at = "conclude" /\ call.status \in WithResponse => buffer = Pieces(call.pieces)

Handing ==
    at \in {"return", "took"} =>
        handed = IF call.status \in WithResponse THEN Whole(call.pieces) ELSE Null

CallInv == HeldInCall /\ Receiving /\ Handing

LEMMA OneMore ==
    ASSUME NEW n \in Nat, NEW b, b = Pieces(n)
    PROVE Append(IF b = Null THEN <<>> ELSE b, n + 1) = Pieces(n + 1)
  <1>1. CASE n = 0
    <2>1. b = Null BY <1>1 DEF Pieces
    <2>2. Append(<<>>, 1) = Whole(1)
      <3>1. Append(<<>>, 1) = <<1>> OBVIOUS
      <3>2. Whole(1) = <<1>> BY DEF Whole
      <3> QED BY <3>1, <3>2
    <2> QED BY <1>1, <2>1, <2>2 DEF Pieces
  <1>2. CASE n # 0
    <2>1. b = Whole(n) BY <1>2 DEF Pieces
    <2>2. Whole(n)[1] = 1 BY <1>2 DEF Whole
    <2>3. Null[1] = 0 BY DEF Null
    <2>4. b # Null BY <2>1, <2>2, <2>3
    <2>5. Whole(n) \in Seq(Nat) /\ Len(Whole(n)) = n BY DEF Whole
    <2>6. Append(Whole(n), n + 1) = Whole(n + 1)
      <3>1. Append(Whole(n), n + 1) \in Seq(Nat) /\ Len(Append(Whole(n), n + 1)) = n + 1
        BY <2>5, AppendProperties
      <3>2. Whole(n + 1) \in Seq(Nat) /\ Len(Whole(n + 1)) = n + 1 BY DEF Whole
      <3>3. ASSUME NEW i \in 1..(n + 1)
            PROVE Append(Whole(n), n + 1)[i] = Whole(n + 1)[i]
        <4>1. CASE i = n + 1 BY <4>1, <2>5, AppendProperties DEF Whole
        <4>2. CASE i # n + 1
          <5>1. i \in 1..n BY <4>2
          <5>2. Append(Whole(n), n + 1)[i] = Whole(n)[i] BY <5>1, <2>5, AppendProperties
          <5> QED BY <5>1, <5>2 DEF Whole
        <4> QED BY <4>1, <4>2
      <3> QED BY <3>1, <3>2, <3>3, SeqEqual
    <2> QED BY <1>2, <2>1, <2>4, <2>6 DEF Pieces
  <1> QED BY <1>1, <1>2

LEMMA CallInvInit == Init => CallInv
  BY DEF Init, CallInv, HeldInCall, Receiving, Handing

LEMMA CallInvStep == Typed /\ CallInv /\ [Next]_vars => CallInv'
  <1> SUFFICES ASSUME Typed, CallInv, [Next]_vars PROVE CallInv' OBVIOUS
  <1> USE DEF CallInv, HeldInCall, Receiving, Handing, InCall
  <1>1. ASSUME NEW t \in Tasks, Start(t) PROVE CallInv' BY <1>1 DEF Start
  <1>2. ASSUME NEW t \in Tasks, Enter(t) PROVE CallInv' BY <1>2 DEF Enter, Typed, HasCall
  <1>3. CASE InitClient BY <1>3 DEF InitClient, Leave
  <1>4. CASE AllocParams BY <1>4 DEF AllocParams, GoTo, NoCall, WithResponse
  <1>5. CASE Prepare
    <2>1. handed = Null /\ buffer = Null BY <1>5 DEF Prepare
    <2>2. CASE at' = "perform"
      <3>1. PICK n \in 0..MaxPieces : call' = [NoCall EXCEPT !.id = client.next, !.pieces = n]
        BY <1>5, <2>2 DEF Prepare, GoTo
      <3>2. call'.arrived = 0 /\ call'.pieces = n /\ 0 <= n BY <3>1, BoundsAssumption DEF NoCall
      <3> QED BY <1>5, <2>1, <2>2, <3>2 DEF Prepare, GoTo, Pieces
    <2>3. CASE at' = "conclude"
      <3>1. call'.status \in {"curl", "allocation"} BY <1>5, <2>3 DEF Prepare, GoTo, NoCall
      <3> QED BY <1>5, <2>1, <2>3, <3>1 DEF Prepare, GoTo, WithResponse
    <2> QED BY <1>5, <2>2, <2>3 DEF Prepare, GoTo
  <1>6. CASE TransferFails
    <2>1. call'.status = "curl" BY <1>6 DEF TransferFails, PerformEnds, Typed, TypeOK, Calls
    <2> QED BY <1>6, <2>1 DEF TransferFails, PerformEnds, GoTo, WithResponse
  <1>7. CASE Conclude
    <2>1. call.status \in WithResponse => Received = Whole(call.pieces)
      <3>1. CASE call.status \in WithResponse /\ call.pieces = 0
        <4>1. buffer = Null BY <1>7, <3>1 DEF Conclude, Pieces
        <4>2. Whole(0) = <<>> BY DEF Whole
        <4> QED BY <3>1, <4>1, <4>2 DEF Received
      <3>2. CASE call.status \in WithResponse /\ call.pieces # 0
        <4>1. buffer = Whole(call.pieces) BY <1>7, <3>2 DEF Conclude, Pieces
        <4>2. call.pieces \in Nat BY DEF Typed, TypeOK, Calls
        <4>3. Whole(call.pieces)[1] = 1 BY <3>2, <4>2 DEF Whole
        <4>4. Null[1] = 0 BY DEF Null
        <4> QED BY <4>1, <4>3, <4>4 DEF Received
      <3> QED BY <3>1, <3>2
    <2>2. held' \subseteq {"params"} BY <1>7 DEF Conclude, OfRequest, Typed, TypeOK
    <2>3. at' = "return" /\ buffer' = Null /\ handed = Null BY <1>7 DEF Conclude, GoTo
    <2>4. CASE call.status \in WithResponse /\ handed' = Received /\ UNCHANGED call
      BY <2>1, <2>2, <2>3, <2>4
    <2>5. CASE call' = [call EXCEPT !.status = "allocation"] /\ UNCHANGED handed
      <3>1. call'.status = "allocation" BY <2>5 DEF Typed, TypeOK, Calls
      <3> QED BY <2>2, <2>3, <2>5, <3>1 DEF WithResponse
    <2>6. CASE call.status \notin WithResponse /\ UNCHANGED <<call, handed>>
      BY <2>2, <2>3, <2>6
    <2> QED BY <1>7, <2>4, <2>5, <2>6 DEF Conclude
  <1>8. CASE Return BY <1>8 DEF Return
  <1>9. CASE Proceed BY <1>9 DEF Proceed
  <1>10. CASE Stop BY <1>10 DEF Stop, Leave
  <1>11. CASE WriteCallback
    <2>1. call.arrived \in Nat /\ call.pieces \in Nat BY DEF Typed, TypeOK, Calls
    <2>2. CASE /\ buffer' = Append(Received, Piece)
               /\ call' = [call EXCEPT !.arrived = @ + 1]
               /\ GoTo("perform")
               /\ UNCHANGED <<client, held, handed>>
      <3>1. call'.arrived = call.arrived + 1 /\ call'.pieces = call.pieces
        BY <2>2 DEF Typed, TypeOK, Calls
      <3>2. buffer' = Pieces(call.arrived + 1)
        BY <1>11, <2>1, <2>2, OneMore DEF WriteCallback, PieceComes, Received, Piece
      <3>3. at = "perform" /\ at' = "perform" /\ UNCHANGED handed /\ call.arrived < call.pieces
        BY <1>11, <2>2 DEF WriteCallback, PieceComes, GoTo
      <3> QED BY <2>1, <3>1, <3>2, <3>3
    <2>3. CASE PerformEnds("curl")
      <3>1. call'.status = "curl" BY <2>3 DEF PerformEnds, Typed, TypeOK, Calls
      <3> QED BY <1>11, <2>3, <3>1 DEF WriteCallback, PieceComes, PerformEnds, GoTo, WithResponse
    <2> QED BY <1>11, <2>2, <2>3 DEF WriteCallback
  <1>12. CASE Answered
    <2>1. call.arrived \in Nat /\ call.pieces \in Nat BY DEF Typed, TypeOK, Calls
    <2>2. at = "perform" /\ call.arrived = call.pieces BY <1>12, <2>1 DEF Answered, PieceComes
    <2>3. call'.pieces = call.pieces BY <1>12 DEF Answered, PerformEnds, Typed, TypeOK, Calls
    <2> QED BY <1>12, <2>2, <2>3 DEF Answered, PerformEnds, GoTo
  <1>13. CASE UNCHANGED vars BY <1>13 DEF vars
  <1> QED BY <1>1, <1>2, <1>3, <1>4, <1>5, <1>6, <1>7, <1>8, <1>9, <1>10, <1>11, <1>12, <1>13
          DEF Next, Local, Network

LEMMA CallInvariant == Spec => [](Typed /\ CallInv)
  BY TypedInit, TypedStep, CallInvInit, CallInvStep, PTL DEF Spec

\* Whatever fails in a call, all it allocated is freed when it is over (rpc_request
\* and its wrappers), for any plans and any number of tasks.
THEOREM CallsFree == Spec => []NothingHeld
  <1>1. CallInv => NothingHeld BY DEF CallInv, HeldInCall, NothingHeld
  <1> QED BY <1>1, CallInvariant, PTL

\* A response is the whole answer, however many pieces it came in, or there is none
\* (solana_write_callback, rpc_request).
THEOREM AnswersAreWhole == Spec => []WholeAnswer
  <1>1. CallInv => WholeAnswer BY DEF CallInv, Handing, WholeAnswer, Whole
  <1> QED BY <1>1, CallInvariant, PTL

-----------------------------------------------------------------------------
(* Responses the wallet has *)

HeapInv ==
    /\ wallet = "cli" => \A r \in heap : r.by = owner
    /\ wallet = "desktop" =>
         \A r \in heap : \/ r.status = "http"
                         \/ /\ r.by = owner /\ at = "took"
                            /\ r.id = call.id /\ call.status = "ok"

LEMMA HeapInvInit == Init => HeapInv
  BY DEF Init, HeapInv

LEMMA HeapInvStep == Typed /\ CallInv /\ HeapInv /\ [Next]_vars => HeapInv'
  <1> SUFFICES ASSUME Typed, CallInv, HeapInv, [Next]_vars PROVE HeapInv' OBVIOUS
  <1>t. wallet \in {"cli", "desktop"} /\ heap \subseteq Responses BY DEF Typed, TypeOK
  <1>o. owner = Nobody <=> at = "out" BY DEF Typed, HasCall
  <1> USE DEF HeapInv
  <1>1. ASSUME NEW t \in Tasks, Start(t) PROVE HeapInv' BY <1>1 DEF Start
  <1>2. ASSUME NEW t \in Tasks, Enter(t) PROVE HeapInv'
    <2>1. \A r \in heap : r.by # owner BY <1>2, <1>t, NobodyAssumption DEF Enter, Responses
    <2> QED BY <1>2, <2>1 DEF Enter
  <1>3. CASE InitClient BY <1>3, <1>t DEF InitClient, Leave
  <1>4. CASE AllocParams BY <1>4, <1>t DEF AllocParams, GoTo
  <1>5. CASE Prepare BY <1>5, <1>t DEF Prepare, GoTo
  <1>6. CASE TransferFails BY <1>6, <1>t DEF TransferFails, PerformEnds, GoTo
  <1>7. CASE Conclude BY <1>7, <1>t DEF Conclude, GoTo
  <1>8. CASE Return
    <2>1. handed # Null => call.status \in {"ok", "http"}
      BY <1>8 DEF Return, CallInv, Handing, WithResponse
    <2> QED BY <1>8, <1>t, <2>1 DEF Return
  <1>9. CASE Proceed
    <2>1. CASE wallet = "cli" BY <1>9, <2>1 DEF Proceed
    <2>2. CASE wallet = "desktop"
      <3>1. call.status = "ok" /\ Freed = Mine BY <1>9, <2>2 DEF Proceed, Freed
      <3> QED BY <1>9, <2>2, <3>1 DEF Proceed, Mine
    <2> QED BY <1>t, <2>1, <2>2
  <1>10. CASE Stop
    <2>1. CASE wallet = "cli" BY <1>10, <2>1 DEF Stop, Leave
    <2>2. CASE wallet = "desktop"
      <3>1. call.status = "ok" => Freed = Mine BY <2>2 DEF Freed
      <3> QED BY <1>10, <2>2, <3>1 DEF Stop, Leave, Mine
    <2> QED BY <1>t, <2>1, <2>2
  <1>11. CASE WriteCallback BY <1>11, <1>t DEF WriteCallback, PieceComes, PerformEnds, GoTo
  <1>12. CASE Answered BY <1>12, <1>t DEF Answered, PerformEnds, GoTo
  <1>13. CASE UNCHANGED vars BY <1>13 DEF vars
  <1> QED BY <1>1, <1>2, <1>3, <1>4, <1>5, <1>6, <1>7, <1>8, <1>9, <1>10, <1>11, <1>12, <1>13
          DEF Next, Local, Network

\* The command line program frees every response by the end of the option, and the
\* desktop every one but those that came with an HTTP error (ffi.rs).
THEOREM OnlyHttpErrorsLeak == Spec => []Unfreed
  <1>1. Typed /\ HeapInv => Unfreed
    <2> SUFFICES ASSUME Typed, HeapInv, NEW r \in heap
                 PROVE \/ wallet = "desktop" /\ r.status = "http"
                       \/ r.by = owner /\ (wallet = "cli" \/ at = "took")
      BY DEF Unfreed
    <2> QED BY DEF Typed, TypeOK, HeapInv
  <1>2. Spec => []HeapInv
    BY CallInvariant, HeapInvInit, HeapInvStep, PTL DEF Spec
  <1> QED BY <1>1, <1>2, CallInvariant, PTL
=============================================================================
