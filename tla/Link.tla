--------------------------------- MODULE Link ---------------------------------
(***************************************************************************)
(* What the two link protocols of libticalcs share: the operation a        *)
(* program has under way (calc_xx.cc), the queue of packets each way       *)
(* (link_xxx.cc over link_usb1.cc), and the calculator's variables.        *)
(*                                                                         *)
(* The calculator is modelled from how the library talks to it. It answers *)
(* a packet, or stops: what it was about to receive or to say is lost and  *)
(* it forgets the exchange. An answer may also come after the program's    *)
(* time-out, and is then read by the next operation: nothing in the wallet *)
(* resets the cable between two operations.                                *)
(***************************************************************************)
EXTENDS Naturals, Sequences

CONSTANTS
    Slots,       \* the string variables
    Contents,    \* what can be in one
    Absent,
    Found,       \* what the calculator's variables may hold at first
    MaxOps,      \* a bound: operations of the program
    MaxFaults    \* a bound: packets lost, damaged or late

ASSUME AbsentAssumption == Absent \notin Contents
ASSUME FoundAssumption == Found \subseteq Contents \cup {Absent}
ASSUME BoundsAssumption == MaxOps \in Nat /\ MaxFaults \in Nat

VARIABLES
    op,       \* the operation: kind, slot, content, and whether it began clean
    at,       \* the packet the program sends or awaits next
    told,     \* what the last operation returned
    got,      \* the content it returned
    toCalc,   \* packets on their way to the calculator
    toHost,   \* packets on their way to the program, the cable's buffer included
    calc,     \* the calculator's end of the exchange
    store,    \* its string variables
    offered,  \* a history: what each of them may hold
    ops, faults

wire == <<toCalc, toHost>>
calculator == <<calc, store>>
linkVars == <<op, at, told, got, wire, calculator, offered, ops, faults>>

Kinds == {"ready", "send", "recv"}
Ops == [kind : Kinds, slot : Slots \cup {Absent}, content : Contents \cup {Absent}, clean : BOOLEAN]
NoOp == [kind |-> "none", slot |-> Absent, content |-> Absent, clean |-> TRUE]
News == {"nothing", "ready", "stored", "declined", "fetched", "failed"}

\* The calculator's end: what it does, with which variable, the packet it is
\* receiving (in), those it has still to say (out), and how much of the first.
CalcIdle == [doing |-> "nothing", slot |-> Absent, in |-> <<>>, out |-> <<>>,
             said |-> 0, waiting |-> FALSE]

Quiet == toCalc = <<>> /\ toHost = <<>> /\ calc.in = <<>> /\ calc.out = <<>>

LinkInit ==
    /\ op = NoOp /\ at = "idle" /\ told = "nothing" /\ got = Absent
    /\ toCalc = <<>> /\ toHost = <<>>
    /\ calc = CalcIdle
    /\ store \in [Slots -> Found]
    /\ offered = [s \in Slots |-> {store[s], Absent}]
    /\ ops = 0 /\ faults = 0

-----------------------------------------------------------------------------
(* ticalcs_calc_isready, ticalcs_calc_send_var, ticalcs_calc_recv_var: the  *)
(* handle is attached, open and free (CliMain).                             *)

Begin(kind, s, c, first) ==
    /\ at = "idle"
    /\ ops < MaxOps
    /\ op' = [kind |-> kind, slot |-> s, content |-> c, clean |-> Quiet]
    /\ offered' = IF kind = "send" THEN [offered EXCEPT ![s] = @ \cup {c}] ELSE offered
    /\ at' = first /\ told' = "nothing" /\ got' = Absent
    /\ ops' = ops + 1
    /\ UNCHANGED <<wire, calculator, faults>>

Finish(news, c) == at' = "idle" /\ told' = news /\ got' = c /\ UNCHANGED <<op, offered, ops>>

Fail == Finish("failed", Absent)

GoOn(next) == at' = next /\ UNCHANGED <<op, offered, ops, told, got>>

-----------------------------------------------------------------------------
(* ticables_cable_send and ticables_cable_recv *)

Put(p) == toCalc' = Append(toCalc, p)
Heard == Head(toHost)

\* The write times out, or the device is gone: the packet is not sent.
PutFails == faults < MaxFaults /\ faults' = faults + 1 /\ Fail /\ UNCHANGED toCalc

WriteFails(steps) == at \in steps /\ PutFails /\ UNCHANGED <<toHost, calculator>>

\* A fault: the read has no time-out.
ReadsForever(steps) == FALSE /\ Fail /\ UNCHANGED <<wire, calculator, faults>>

\* Nothing came within the time-out. An answer that is still to come, and will
\* come late, counts as a fault.
ReadTimesOut(steps) ==
    /\ at \in steps
    /\ toHost = <<>>
    /\ \/ Quiet /\ UNCHANGED faults
       \/ ~Quiet /\ faults < MaxFaults /\ faults' = faults + 1
    /\ Fail
    /\ UNCHANGED <<wire, calculator>>

\* The calculator stops, and what it was to hear, or said last, is lost.
CalcStops ==
    /\ faults < MaxFaults
    /\ \/ toCalc # <<>> /\ toCalc' = <<>> /\ UNCHANGED toHost
       \/ toHost # <<>> /\ toHost' = SubSeq(toHost, 1, Len(toHost) - 1) /\ UNCHANGED toCalc
    /\ calc' = CalcIdle
    /\ faults' = faults + 1
    /\ UNCHANGED <<op, at, told, got, store, offered, ops>>

CalcHears == toCalc # <<>> /\ toCalc' = Tail(toCalc)
CalcSays(ps) == toHost' = toHost \o ps
=============================================================================
