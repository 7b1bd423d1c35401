------------------------------- MODULE Transfer -------------------------------
(***************************************************************************)
(* What the wallet promises about the transactions its user asks for,      *)
(* transfers and airdrops alike. It says nothing of keys, requests or      *)
(* retries: an order is approved, the network may execute it once, and     *)
(* whatever the user is told about it is true.                             *)
(***************************************************************************)
CONSTANT Orders

VARIABLES
    landed,  \* what the ledger did with each order
    told     \* the last thing the user was told about each order

vars == <<landed, told>>

Outcomes == {"ok", "failed"}
Open == {"approved", "submitted"}
Verdicts == {"aborted", "confirmed", "failed", "unknown"}

Init ==
    /\ landed = [o \in Orders |-> "no"]
    /\ told = [o \in Orders |-> "nothing"]

Approve(o) ==
    /\ told[o] = "nothing"
    /\ told' = [told EXCEPT ![o] = "approved"]
    /\ UNCHANGED landed

\* An order the user was told is off never reaches the ledger; one whose fate
\* is unknown still may.
Land(o, outcome) ==
    /\ told[o] \notin {"nothing", "aborted"}
    /\ landed[o] = "no"
    /\ landed' = [landed EXCEPT ![o] = outcome]
    /\ UNCHANGED told

Tell(o, news) ==
    /\ told[o] \in Open
    /\ news = "confirmed" => landed[o] = "ok"
    /\ news = "failed" => landed[o] = "failed"
    /\ news = "aborted" => landed[o] = "no"
    /\ told' = [told EXCEPT ![o] = news]
    /\ UNCHANGED landed

Next ==
    \E o \in Orders :
        \/ Approve(o)
        \/ \E outcome \in Outcomes : Land(o, outcome)
        \/ \E news \in Verdicts \cup {"submitted"} : Tell(o, news)

Spec == Init /\ [][Next]_vars
=============================================================================
