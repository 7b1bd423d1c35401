------------------------------- MODULE VarStore -------------------------------
(***************************************************************************)
(* What a transfer promises about the calculator's string variables,       *)
(* whatever the cable and its protocol. A variable only ever holds what it *)
(* held at first, something that was offered to it, or nothing. A report   *)
(* is true, except that the user cannot tell "stored" from "declined", and *)
(* provided nothing of an earlier transfer was still under way when the    *)
(* operation began (clean).                                                *)
(***************************************************************************)
CONSTANTS Slots, Contents, Absent

VARIABLES
    store,    \* what each variable of the calculator holds
    offered,  \* what it may ever hold
    asked,    \* the operation under way
    told,     \* what the last operation reported
    got       \* the content it returned

vars == <<store, offered, asked, told, got>>

Idle == [kind |-> "none", slot |-> Absent, content |-> Absent, clean |-> TRUE]
Operations ==
    [kind : {"ready", "send", "recv"}, slot : Slots \cup {Absent},
     content : Contents \cup {Absent}, clean : BOOLEAN]

Init ==
    /\ store \in [Slots -> Contents \cup {Absent}]
    /\ offered = [s \in Slots |-> {store[s], Absent}]
    /\ asked = Idle
    /\ told = "nothing" /\ got = Absent

Ask(o) ==
    /\ asked = Idle
    /\ asked' = o
    /\ offered' = IF o.kind = "send"
                  THEN [offered EXCEPT ![o.slot] = @ \cup {o.content}] ELSE offered
    /\ told' = "nothing" /\ got' = Absent
    /\ UNCHANGED store

\* The calculator replaces a variable in place, and may lose it on the way.
Change(s, c) ==
    /\ c \in offered[s]
    /\ store' = [store EXCEPT ![s] = c]
    /\ UNCHANGED <<offered, asked, told, got>>

Report(news, c) ==
    /\ asked # Idle
    /\ news \in {"stored", "declined"} => asked.kind = "send"
    /\ news = "fetched" => asked.kind = "recv"
    /\ news = "ready" => asked.kind = "ready"
    /\ asked.clean /\ news = "stored" => store[asked.slot] = asked.content
    /\ asked.clean /\ news = "fetched" => c = store[asked.slot]
    /\ c # Absent <=> news = "fetched"
    /\ told' = news /\ got' = c
    /\ asked' = Idle
    /\ UNCHANGED <<store, offered>>

Next ==
    \/ \E o \in Operations : Ask(o)
    \/ \E s \in Slots : \E c \in offered[s] : Change(s, c)
    \/ \E c \in Contents \cup {Absent} :
           \E news \in {"ready", "stored", "declined", "fetched", "failed"} : Report(news, c)

Spec == Init /\ [][Next]_vars
=============================================================================
