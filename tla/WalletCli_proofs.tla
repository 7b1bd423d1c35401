--------------------------- MODULE WalletCli_proofs ---------------------------
(***************************************************************************)
(* For every set of slots, passwords and orders and every bound of the     *)
(* confirmation loop: WalletCli keeps to its types, erases its secrets,    *)
(* and implements Transfer.                                                *)
(***************************************************************************)
EXTENDS WalletCli, TLAPS

\* The option each step belongs to.
FlowInv ==
    /\ at = "menu" => flow = "none"
    /\ at \in {"slot", "password", "confirmation", "generate", "store"} => flow = "create"
    /\ at = "fetch" => flow \in {"load", "airdrop", "balance", "send"}
    /\ at \in {"ask", "loadPassword", "loadDecrypt", "loadCheck"} => flow = "load"
    /\ at \in {"amount", "request"} => flow = "airdrop"
    /\ at \in {"details", "sendPassword", "sendDecrypt", "blockhash", "build", "submit"}
          => flow = "send"
    /\ at = "balance" => flow = "balance"
    /\ at = "client" => flow \in {"airdrop", "balance", "send"}
    /\ at = "await" => flow \in {"airdrop", "send"}

\* What the buffers hold at each step.
HeldInv ==
    /\ at \in {"menu", "slot", "password", "fetch", "ask", "loadPassword", "amount",
               "details", "sendPassword", "balance", "request", "submit", "await"}
          => held = {} /\ typed = "none"
    /\ at \in {"client", "blockhash", "build"} => held \subseteq {"key"} /\ typed = "none"
    /\ at = "client" /\ flow # "send" => held = {}

SlotInv ==
    at \in {"password", "confirmation", "generate", "store"} => slot \in Slots

TypedInv ==
    at \in {"confirmation", "generate", "store"} => typed \in Passwords

\* An order is served from its approval to its answer, and reaches the network
\* once: nothing of it is on the chain before it is submitted.
OrderInv ==
    /\ at \in Prompting \/ (at = "client" /\ flow = "balance") \/ at = "balance"
          => order = "none"
    /\ at \in {"client", "blockhash", "build", "submit", "request"} /\ flow # "balance"
          => order \in Orders /\ told[order] = "approved" /\ chain[order] = "none"
    /\ at = "await" => order \in Orders /\ told[order] = "submitted"

\* Nothing lands that was not approved, or that was called off.
ChainInv == \A o \in Orders : told[o] \in {"nothing", "aborted"} => chain[o] = "none"

IInv == TypeOK /\ FlowInv /\ HeldInv /\ SlotInv /\ TypedInv /\ OrderInv /\ ChainInv

-----------------------------------------------------------------------------
LEMMA InitIInv == Init => IInv
  BY AttemptsAssumption
  DEF Init, IInv, TypeOK, Prompting, Told, Chain, FlowInv, HeldInv, SlotInv, TypedInv,
      OrderInv, ChainInv

Parts == FlowInv /\ HeldInv /\ SlotInv /\ TypedInv /\ OrderInv /\ ChainInv

LEMMA NextParts == IInv /\ [Next]_vars => Parts'
  <1> SUFFICES ASSUME IInv, [Next]_vars PROVE Parts'
    OBVIOUS
  <1> USE OrdersAssumption DEF Parts, IInv, TypeOK, FlowInv, HeldInv, SlotInv, TypedInv, OrderInv,
      ChainInv, Prompting, Leave, BackToMenu, GoOn, program, vars
  <1>1. CASE \E f \in Flows : Choose(f)
    BY <1>1 DEF Choose, Flows
  <1>2. CASE ChooseSlot
    BY <1>2 DEF ChooseSlot
  <1>3. CASE EnterPassword
    BY <1>3 DEF EnterPassword
  <1>4. CASE ConfirmPassword
    BY <1>4 DEF ConfirmPassword
  <1>5. CASE Fetch
    BY <1>5 DEF Fetch, AfterFetch
  <1>6. CASE AskVerify
    BY <1>6 DEF AskVerify
  <1>7. CASE LoadPassword
    BY <1>7 DEF LoadPassword, TypePassword
  <1>8. CASE AirdropAmount
    BY <1>8 DEF AirdropAmount, Approve
  <1>9. CASE SendDetails
    BY <1>9 DEF SendDetails
  <1>10. CASE SendPassword
    BY <1>10 DEF SendPassword, TypePassword
  <1>11. CASE Generate
    BY <1>11 DEF Generate
  <1>12. CASE StoreWallet
    BY <1>12 DEF StoreWallet
  <1>13. CASE LoadDecrypt
    BY <1>13 DEF LoadDecrypt
  <1>14. CASE LoadCheck
    BY <1>14 DEF LoadCheck
  <1>15. CASE SendDecrypt
    BY <1>15 DEF SendDecrypt, Approve
  <1>16. CASE InitClient
    BY <1>16 DEF InitClient, Answer, AfterInit
  <1>17. CASE GetBalance
    BY <1>17 DEF GetBalance
  <1>18. CASE GetBlockhash
    BY <1>18 DEF GetBlockhash, Answer
  <1>19. CASE BuildTransaction
    BY <1>19 DEF BuildTransaction, Answer
  <1>20. CASE Submit
    BY <1>20 DEF Submit, RequestFails, Answer, Await, Reach
  <1>21. CASE RequestAirdrop
    BY <1>21 DEF RequestAirdrop, RequestFails, Answer, Await, Reach
  <1>22. CASE Poll
    BY <1>22 DEF Poll, Answer
  <1>23. CASE Cluster
    BY <1>23 DEF Cluster, Execute
  <1>24. CASE UNCHANGED vars
    BY <1>24
  <1> QED
    BY <1>1, <1>2, <1>3, <1>4, <1>5, <1>6, <1>7, <1>8, <1>9, <1>10, <1>11, <1>12,
       <1>13, <1>14, <1>15, <1>16, <1>17, <1>18, <1>19, <1>20, <1>21, <1>22, <1>23, <1>24
       DEF Next, User, Program

LEMMA AtType ==
  IInv /\ [Next]_vars =>
    at' \in Prompting \cup Network
  BY DEF IInv, TypeOK, AfterFetch, AfterInit, Prompting, Network, FlowInv,
      Next, User, Program, Cluster, Choose, ChooseSlot, EnterPassword, ConfirmPassword,
      Generate, StoreWallet, Fetch, AskVerify, TypePassword, LoadPassword, LoadDecrypt,
      LoadCheck, Approve, AirdropAmount, SendDetails, SendPassword, SendDecrypt,
      InitClient, GetBalance, GetBlockhash, BuildTransaction, Reach, RequestFails, Await,
      Submit, RequestAirdrop, Poll, Execute, Answer, Leave, BackToMenu, GoOn, program, vars

LEMMA FlowType ==
  IInv /\ [Next]_vars =>
    flow' \in Flows \cup {"none"}
  BY DEF IInv, TypeOK, Flows,
      Next, User, Program, Cluster, Choose, ChooseSlot, EnterPassword, ConfirmPassword,
      Generate, StoreWallet, Fetch, AskVerify, TypePassword, LoadPassword, LoadDecrypt,
      LoadCheck, Approve, AirdropAmount, SendDetails, SendPassword, SendDecrypt,
      InitClient, GetBalance, GetBlockhash, BuildTransaction, Reach, RequestFails, Await,
      Submit, RequestAirdrop, Poll, Execute, Answer, Leave, BackToMenu, GoOn, program, vars

LEMMA StoreType ==
  IInv /\ [Next]_vars =>
    store' \in [Slots -> Contents]
  BY DEF IInv, TypeOK, SlotInv, TypedInv, Contents, Wallets,
      Next, User, Program, Cluster, Choose, ChooseSlot, EnterPassword, ConfirmPassword,
      Generate, StoreWallet, Fetch, AskVerify, TypePassword, LoadPassword, LoadDecrypt,
      LoadCheck, Approve, AirdropAmount, SendDetails, SendPassword, SendDecrypt,
      InitClient, GetBalance, GetBlockhash, BuildTransaction, Reach, RequestFails, Await,
      Submit, RequestAirdrop, Poll, Execute, Answer, Leave, BackToMenu, GoOn, program, vars

LEMMA BuffersType ==
  IInv /\ [Next]_vars =>
    /\ slot' \in Slots \cup {"none"}
    /\ wallet' \in Wallets \cup {"none"}
    /\ typed' \in Passwords \cup {"none"}
  BY DEF IInv, TypeOK, Wallets,
      Next, User, Program, Cluster, Choose, ChooseSlot, EnterPassword, ConfirmPassword,
      Generate, StoreWallet, Fetch, AskVerify, TypePassword, LoadPassword, LoadDecrypt,
      LoadCheck, Approve, AirdropAmount, SendDetails, SendPassword, SendDecrypt,
      InitClient, GetBalance, GetBlockhash, BuildTransaction, Reach, RequestFails, Await,
      Submit, RequestAirdrop, Poll, Execute, Answer, Leave, BackToMenu, GoOn, program, vars

LEMMA HeldType ==
  IInv /\ [Next]_vars =>
    held' \in SUBSET Secrets
  BY DEF IInv, TypeOK, Secrets,
      Next, User, Program, Cluster, Choose, ChooseSlot, EnterPassword, ConfirmPassword,
      Generate, StoreWallet, Fetch, AskVerify, TypePassword, LoadPassword, LoadDecrypt,
      LoadCheck, Approve, AirdropAmount, SendDetails, SendPassword, SendDecrypt,
      InitClient, GetBalance, GetBlockhash, BuildTransaction, Reach, RequestFails, Await,
      Submit, RequestAirdrop, Poll, Execute, Answer, Leave, BackToMenu, GoOn, program, vars

LEMMA OrderType ==
  IInv /\ [Next]_vars =>
    order' \in Orders \cup {"none"}
  BY DEF IInv, TypeOK, Next, User, Program, Cluster, Choose, ChooseSlot, EnterPassword, ConfirmPassword,
      Generate, StoreWallet, Fetch, AskVerify, TypePassword, LoadPassword, LoadDecrypt,
      LoadCheck, Approve, AirdropAmount, SendDetails, SendPassword, SendDecrypt,
      InitClient, GetBalance, GetBlockhash, BuildTransaction, Reach, RequestFails, Await,
      Submit, RequestAirdrop, Poll, Execute, Answer, Leave, BackToMenu, GoOn, program, vars

LEMMA AttemptType ==
  IInv /\ [Next]_vars =>
    attempt' \in 0..(MaxAttempts - 1)
  BY AttemptsAssumption 
  DEF IInv, TypeOK, Next, User, Program, Cluster, Choose, ChooseSlot, EnterPassword, ConfirmPassword,
      Generate, StoreWallet, Fetch, AskVerify, TypePassword, LoadPassword, LoadDecrypt,
      LoadCheck, Approve, AirdropAmount, SendDetails, SendPassword, SendDecrypt,
      InitClient, GetBalance, GetBlockhash, BuildTransaction, Reach, RequestFails, Await,
      Submit, RequestAirdrop, Poll, Execute, Answer, Leave, BackToMenu, GoOn, program, vars

LEMMA ToldType ==
  IInv /\ [Next]_vars =>
    told' \in [Orders -> Told]
  BY DEF IInv, TypeOK, Told, OrderInv, Prompting,
      Next, User, Program, Cluster, Choose, ChooseSlot, EnterPassword, ConfirmPassword,
      Generate, StoreWallet, Fetch, AskVerify, TypePassword, LoadPassword, LoadDecrypt,
      LoadCheck, Approve, AirdropAmount, SendDetails, SendPassword, SendDecrypt,
      InitClient, GetBalance, GetBlockhash, BuildTransaction, Reach, RequestFails, Await,
      Submit, RequestAirdrop, Poll, Execute, Answer, Leave, BackToMenu, GoOn, program, vars

LEMMA ChainType ==
  IInv /\ [Next]_vars =>
    chain' \in [Orders -> Chain]
  BY DEF IInv, TypeOK, Chain, OrderInv,
      Next, User, Program, Cluster, Choose, ChooseSlot, EnterPassword, ConfirmPassword,
      Generate, StoreWallet, Fetch, AskVerify, TypePassword, LoadPassword, LoadDecrypt,
      LoadCheck, Approve, AirdropAmount, SendDetails, SendPassword, SendDecrypt,
      InitClient, GetBalance, GetBlockhash, BuildTransaction, Reach, RequestFails, Await,
      Submit, RequestAirdrop, Poll, Execute, Answer, Leave, BackToMenu, GoOn, program, vars

LEMMA IInvariant == Spec => []IInv
  <1>1. IInv /\ [Next]_vars => IInv'
    <2> SUFFICES ASSUME IInv, [Next]_vars PROVE IInv'
      OBVIOUS
    <2>1. TypeOK'
      BY AtType, FlowType, StoreType, BuffersType, HeldType, OrderType, AttemptType,
         ToldType, ChainType DEF TypeOK
    <2>2. Parts'
      BY NextParts
    <2> QED
      BY <2>1, <2>2 DEF IInv, Parts
  <1> QED
    BY InitIInv, <1>1, PTL DEF Spec

\* Buffers, orders and the calculator's variables keep to their types, and the
\* confirmation loop makes MaxAttempts polls at most.
THEOREM TypeCorrect == Spec => []TypeOK
  <1>1. IInv => TypeOK
    BY DEF IInv
  <1> QED
    BY IInvariant, <1>1, PTL

\* The passwords and the private key are zeroed on every path back to the
\* menu, and before the program waits on what it has submitted.
THEOREM SecretsAreErased == Spec => []SecretsErased
  <1>1. IInv => SecretsErased
    BY DEF IInv, HeldInv, FlowInv, SecretsErased, Network
  <1> QED
    BY IInvariant, <1>1, PTL

-----------------------------------------------------------------------------
(* WalletCli implements Transfer. *)

\* What is said of the order being served is said of it in Transfer.
LEMMA TellMaps ==
  ASSUME IInv, order \in Orders, NEW heard \in Told, NEW abstract,
         told' = [told EXCEPT ![order] = heard],
         \A o \in Orders : landedSoFar'[o] = landedSoFar[o],
         abstract = IF heard \in {"sendFailed", "rejected", "timedOut"} THEN "unknown"
                                                                  ELSE heard,
         told[order] \in {"approved", "submitted"},
         abstract \in {"submitted", "aborted", "confirmed", "failed", "unknown"},
         abstract = "confirmed" => chain[order] = "ok",
         abstract = "failed" => chain[order] = "failed",
         abstract = "aborted" => chain[order] = "none"
  PROVE  T!Next
  <1>1. UNCHANGED landedSoFar
    BY DEF landedSoFar
  <1>2. toldSoFar' = [toldSoFar EXCEPT ![order] = abstract]
    BY DEF toldSoFar, IInv, TypeOK
  <1>3. toldSoFar[order] = told[order]
    BY DEF toldSoFar
  <1>4. T!Tell(order, abstract)
    BY <1>1, <1>2, <1>3 DEF T!Tell, T!Open, landedSoFar
  <1> QED
    BY <1>4 DEF T!Next, T!Verdicts

LEMMA ApproveMaps == ASSUME IInv, Approve, UNCHANGED chain PROVE T!Next
  <1>1. PICK o \in Orders : told[o] = "nothing" /\ told' = [told EXCEPT ![o] = "approved"]
    BY DEF Approve
  <1>2. toldSoFar' = [toldSoFar EXCEPT ![o] = "approved"] /\ toldSoFar[o] = "nothing"
    BY <1>1 DEF toldSoFar, IInv, TypeOK
  <1>3. UNCHANGED landedSoFar
    BY DEF landedSoFar
  <1> QED
    BY <1>2, <1>3 DEF T!Next, T!Approve

LEMMA LandMaps == ASSUME IInv, NEW o \in Orders, Execute(o) PROVE [T!Next]_T!vars
  <1>1. PICK c \in {"ok", "failed", "dropped"} : chain' = [chain EXCEPT ![o] = c]
    BY DEF Execute
  <1>2. UNCHANGED toldSoFar
    BY DEF Execute, toldSoFar
  <1>3. chain[o] = "pending" /\ landedSoFar[o] = "no" /\ toldSoFar[o] \notin {"nothing", "aborted"}
    BY DEF Execute, landedSoFar, toldSoFar, IInv, ChainInv
  <1>4. CASE c = "dropped"
    <2>1. UNCHANGED landedSoFar
      BY <1>1, <1>3, <1>4 DEF landedSoFar, IInv, TypeOK
    <2> QED
      BY <1>2, <2>1 DEF T!vars
  <1>5. CASE c \in {"ok", "failed"}
    <2>1. landedSoFar' = [landedSoFar EXCEPT ![o] = c]
      BY <1>1, <1>5 DEF landedSoFar, IInv, TypeOK
    <2>2. T!Land(o, c)
      BY <1>2, <1>3, <2>1 DEF T!Land
    <2> QED
      BY <1>5, <2>2 DEF T!Next, T!Outcomes
  <1> QED
    BY <1>1, <1>4, <1>5

\* A request that was answered, refused or lost changes nothing that landed.
LEMMA ReachLandsNothing ==
  ASSUME IInv, order \in Orders, chain[order] = "none", NEW c \in {"none", "pending"}, Reach(c)
  PROVE  \A o \in Orders : landedSoFar'[o] = landedSoFar[o]
  BY DEF Reach, landedSoFar, IInv, TypeOK

LEMMA NextMaps == IInv /\ [Next]_vars => [T!Next]_T!vars
  <1> SUFFICES ASSUME IInv, [Next]_vars PROVE [T!Next]_T!vars
    OBVIOUS
  <1>1. CASE UNCHANGED <<told, chain>>
    BY <1>1 DEF T!vars, landedSoFar, toldSoFar
  <1> USE DEF program, vars
  <1>2. CASE AirdropAmount \/ SendDecrypt
    BY <1>1, <1>2, ApproveMaps DEF AirdropAmount, SendDecrypt, Leave
  <1>3. CASE InitClient \/ GetBlockhash \/ BuildTransaction
    <2>1. CASE Answer("aborted") /\ order # "none"
      <3>1. order \in Orders /\ told[order] = "approved" /\ chain[order] = "none"
        BY <1>3, <2>1 DEF InitClient, GetBlockhash, BuildTransaction, IInv, OrderInv, FlowInv
      <3>2. UNCHANGED chain
        BY <1>3 DEF InitClient, GetBlockhash, BuildTransaction
      <3> QED
        BY <2>1, <3>1, <3>2, TellMaps DEF Answer, Told, landedSoFar
    <2> QED
      BY <1>1, <1>3, <2>1 DEF InitClient, GetBlockhash, BuildTransaction, Answer
  <1>4. CASE Submit \/ RequestAirdrop
    <2>1. order \in Orders /\ told[order] = "approved" /\ chain[order] = "none"
      BY <1>4 DEF Submit, RequestAirdrop, IInv, OrderInv, FlowInv
    <2>2. \A o \in Orders : landedSoFar'[o] = landedSoFar[o]
      BY <1>4, <2>1, ReachLandsNothing DEF Submit, RequestAirdrop, RequestFails
    <2>3. order # "none"
      BY <2>1, OrdersAssumption
    <2>4. \E heard \in {"sendFailed", "rejected", "submitted"} :
             told' = [told EXCEPT ![order] = heard]
      BY <1>4, <2>3 DEF Submit, RequestAirdrop, RequestFails, Await, Answer
    <2>5. CASE told' = [told EXCEPT ![order] = "submitted"]
      BY <2>1, <2>2, <2>5, TellMaps DEF Told
    <2>6. CASE told' = [told EXCEPT ![order] = "sendFailed"]
      BY <2>1, <2>2, <2>6, TellMaps DEF Told
    <2>7. CASE told' = [told EXCEPT ![order] = "rejected"]
      BY <2>1, <2>2, <2>7, TellMaps DEF Told
    <2> QED
      BY <2>4, <2>5, <2>6, <2>7
  <1>5. CASE Poll
    <2>1. order \in Orders /\ told[order] = "submitted" /\ order # "none"
      BY <1>5, OrdersAssumption DEF Poll, IInv, OrderInv
    <2>2. UNCHANGED chain /\ \A o \in Orders : landedSoFar'[o] = landedSoFar[o]
      BY <1>5 DEF Poll, landedSoFar
    <2>3. CASE told' = [told EXCEPT ![order] = "timedOut"]
      BY <2>1, <2>2, <2>3, TellMaps DEF Told
    <2>4. ASSUME NEW heard \in {"failed", "confirmed"}, Answer(heard),
                 chain[order] = IF heard = "confirmed" THEN "ok" ELSE "failed"
          PROVE  T!Next
      <3>1. told' = [told EXCEPT ![order] = heard]
        BY <2>1, <2>4 DEF Answer
      <3> QED
        BY <2>1, <2>2, <2>4, <3>1, TellMaps DEF Told
    <2> QED
      BY <1>1, <1>5, <2>1, <2>3, <2>4 DEF Poll, Answer
  <1>6. CASE Cluster
    BY <1>6, LandMaps DEF Cluster
  <1>7. CASE \/ \E f \in Flows : Choose(f)
             \/ ChooseSlot \/ EnterPassword \/ ConfirmPassword \/ Fetch \/ AskVerify
             \/ LoadPassword \/ SendDetails \/ SendPassword
    BY <1>1, <1>7 DEF Choose, ChooseSlot, EnterPassword, ConfirmPassword, Fetch, AskVerify,
       LoadPassword, SendDetails, SendPassword, TypePassword, Leave
  <1>8. CASE Generate \/ StoreWallet \/ LoadDecrypt \/ LoadCheck \/ GetBalance
    BY <1>1, <1>8 DEF Generate, StoreWallet, LoadDecrypt, LoadCheck, GetBalance, Leave
  <1> QED
    BY <1>1, <1>2, <1>3, <1>4, <1>5, <1>6, <1>7, <1>8 DEF Next, User, Program

\* The wallet's orders behave as Transfer says: approved before they land,
\* landing once at most, never after "aborted", and truthfully answered.
THEOREM ImplementsTransfer == Spec => KeepsPromises
  <1>1. Init => T!Init
    BY DEF Init, T!Init, landedSoFar, toldSoFar
  <1> QED
    BY <1>1, NextMaps, IInvariant, PTL DEF Spec, KeepsPromises, T!Spec
=============================================================================
