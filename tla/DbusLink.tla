------------------------------- MODULE DbusLink -------------------------------
(***************************************************************************)
(* The D-BUS protocol of the TI-83 Plus over a SilverLink: is_ready,       *)
(* send_var and recv_var of calc_73.cc, one action per packet, with the    *)
(* packets of dbus_pkt.cc and cmdz80.cc.                                   *)
(*                                                                         *)
(* A packet is a command and one argument: the variable of RTS, REQ and    *)
(* VAR, the content of XDP, the reason of SKP, the status of ACK. Damage   *)
(* is only ever noticed in a packet with data, which has a checksum.       *)
(***************************************************************************)
EXTENDS Link

CONSTANT Refusals   \* the reasons of SKP: DBUS_REJ_SKIP, and those that are errors

VARIABLE rej        \* rej_code of send_var

None == "none"
Damaged == "damaged"
Packet(cmd, arg) == [cmd |-> cmd, arg |-> arg]
WithData == {"RTS", "REQ", "VAR", "XDP", "SKP"}

dbusVars == rej
DbusInit == rej = None

DbusPuts == {"RDY", "RTS", "ACK", "XDP", "EOT", "REQ", "ackVAR", "CTS", "ackXDP"}
DbusGets == {"RDY_ACK", "RTS_ACK", "SKP", "XDP_ACK", "REQ_ACK", "VAR", "CTS_ACK", "getXDP"}

-----------------------------------------------------------------------------
(* dbus_send and dbus_recv *)

DbusSend(here, p, next) ==
    /\ at = here
    /\ Put(p)
    /\ GoOn(next)
    /\ UNCHANGED <<toHost, calculator, faults, rej>>

\* ERR, ERR2 and a wrong checksum are ERR_CHECKSUM.
Intact(p) == p.cmd # "ERR" /\ p.arg # Damaged

DbusRecv(here) == at = here /\ toHost # <<>> /\ toHost' = Tail(toHost)

\* A packet that is not the one expected ends the operation; those behind it stay.
DbusExpect(here, cmd, next) ==
    /\ DbusRecv(here)
    /\ IF Intact(Heard) /\ Heard.cmd = cmd THEN GoOn(next) ELSE Fail
    /\ UNCHANGED <<toCalc, calculator, faults, rej>>

-----------------------------------------------------------------------------
(* is_ready *)

SendRDY == DbusSend("RDY", Packet("RDY", None), "RDY_ACK")

RecvReady ==
    /\ DbusRecv("RDY_ACK")
    /\ IF Intact(Heard) /\ Heard.cmd = "ACK" /\ Heard.arg # "notReady"
       THEN Finish("ready", Absent) ELSE Fail
    /\ UNCHANGED <<toCalc, calculator, faults, rej>>

-----------------------------------------------------------------------------
(* send_var *)

SendRTS == DbusSend("RTS", Packet("RTS", op.slot), "RTS_ACK")
RecvRTSAck == DbusExpect("RTS_ACK", "ACK", "SKP")

\* tiz80_recv_SKP: a CTS is a rejection code of zero.
RecvSKP ==
    /\ DbusRecv("SKP")
    /\ IF Intact(Heard) /\ Heard.cmd \in {"CTS", "SKP"}
       THEN /\ rej' = IF Heard.cmd = "SKP" THEN Heard.arg ELSE None
            /\ GoOn("ACK")
       ELSE Fail /\ rej' = None
    /\ UNCHANGED <<toCalc, calculator, faults>>

\* The switch over rej_code comes after the acknowledgement.
SendACK ==
    /\ at = "ACK"
    /\ Put(Packet("ACK", None))
    /\ rej' = None
    /\ CASE rej = None -> GoOn("XDP")
         [] rej = "skip" -> Finish("declined", Absent)
         [] OTHER -> Fail
    /\ UNCHANGED <<toHost, calculator, faults>>

\* A fault: the end of the transfer is sent without waiting for the content's
\* acknowledgement.
SendXDPUnheard == DbusSend("XDP", Packet("XDP", op.content), "EOT")

SendXDP == DbusSend("XDP", Packet("XDP", op.content), "XDP_ACK")
RecvXDPAck == DbusExpect("XDP_ACK", "ACK", "EOT")

SendEOT ==
    /\ at = "EOT"
    /\ Put(Packet("EOT", None))
    /\ Finish("stored", Absent)
    /\ UNCHANGED <<toHost, calculator, faults, rej>>

-----------------------------------------------------------------------------
(* recv_var *)

SendREQ == DbusSend("REQ", Packet("REQ", op.slot), "REQ_ACK")
RecvREQAck == DbusExpect("REQ_ACK", "ACK", "VAR")

\* ti73_recv_VAR: the name in the header is copied, not compared.
RecvVAR == DbusExpect("VAR", "VAR", "ackVAR")
AckVAR == DbusSend("ackVAR", Packet("ACK", None), "CTS")
SendCTS == DbusSend("CTS", Packet("CTS", None), "CTS_ACK")

\* RECV_ACK with a NULL status: a status other than zero is ERR_NACK.
RecvCTSAck ==
    /\ DbusRecv("CTS_ACK")
    /\ IF Intact(Heard) /\ Heard.cmd = "ACK" /\ Heard.arg = None THEN GoOn("getXDP") ELSE Fail
    /\ UNCHANGED <<toCalc, calculator, faults, rej>>

\* A fault: the checksum is not verified.
RecvXDPUnchecked ==
    /\ DbusRecv("getXDP")
    /\ IF Heard.cmd = "XDP"
       THEN got' = Heard.arg /\ at' = "ackXDP" /\ UNCHANGED <<op, offered, ops, told>>
       ELSE Fail
    /\ UNCHANGED <<toCalc, calculator, faults, rej>>

RecvXDP ==
    /\ DbusRecv("getXDP")
    /\ IF Intact(Heard) /\ Heard.cmd = "XDP"
       THEN got' = Heard.arg /\ at' = "ackXDP" /\ UNCHANGED <<op, offered, ops, told>>
       ELSE Fail
    /\ UNCHANGED <<toCalc, calculator, faults, rej>>

AckXDP ==
    /\ at = "ackXDP"
    /\ Put(Packet("ACK", None))
    /\ Finish("fetched", got)
    /\ UNCHANGED <<toHost, calculator, faults, rej>>

DbusGivesUp ==
    /\ WriteFails(DbusPuts) \/ ReadTimesOut(DbusGets)
    /\ rej' = None

-----------------------------------------------------------------------------
(* The calculator's end *)

CalcTurn(cmd) == CalcHears /\ Head(toCalc).cmd = cmd /\ UNCHANGED <<op, at, told, got, offered, ops, faults, rej>>
Calc(doing, s) == [CalcIdle EXCEPT !.doing = doing, !.slot = s]
ErrReply == CalcSays(<<Packet("ERR", None)>>) /\ calc' = CalcIdle /\ UNCHANGED store

\* A calculator in a menu, or running a program, is not ready.
CalcOnRDY ==
    /\ CalcTurn("RDY")
    /\ \E status \in {None, "notReady"} : CalcSays(<<Packet("ACK", status)>>)
    /\ calc' = CalcIdle
    /\ UNCHANGED store

CalcOnRTS ==
    /\ CalcTurn("RTS")
    /\ LET s == Head(toCalc).arg IN
       IF s = Damaged THEN ErrReply
       ELSE /\ \/ CalcSays(<<Packet("ACK", None), Packet("CTS", None)>>) /\ calc' = Calc("taking", s)
               \/ \E why \in Refusals :
                    CalcSays(<<Packet("ACK", None), Packet("SKP", why)>>) /\ calc' = CalcIdle
            /\ UNCHANGED store

\* The old variable may be deleted before the new one is there.
CalcOnACK ==
    /\ CalcTurn("ACK")
    /\ IF calc.doing = "taking"
       THEN \E keep \in BOOLEAN : store' = IF keep THEN store ELSE [store EXCEPT ![calc.slot] = Absent]
       ELSE UNCHANGED store
    /\ UNCHANGED <<calc, toHost>>

CalcOnXDP ==
    /\ CalcTurn("XDP")
    /\ LET c == Head(toCalc).arg IN
       IF calc.doing # "taking" THEN UNCHANGED <<toHost, calculator>>
       ELSE IF c = Damaged THEN ErrReply
       ELSE /\ CalcSays(<<Packet("ACK", None)>>)
            /\ store' = [store EXCEPT ![calc.slot] = c]
            /\ calc' = CalcIdle

CalcOnEOT == CalcTurn("EOT") /\ UNCHANGED <<toHost, calculator>>

CalcOnREQ ==
    /\ CalcTurn("REQ")
    /\ LET s == Head(toCalc).arg IN
       IF s = Damaged THEN ErrReply
       ELSE /\ CalcSays(<<Packet("ACK", None),
                          IF store[s] = Absent THEN Packet("SKP", "exit") ELSE Packet("VAR", s)>>)
            /\ calc' = IF store[s] = Absent THEN CalcIdle ELSE Calc("giving", s)
            /\ UNCHANGED store

CalcOnCTS ==
    /\ CalcTurn("CTS")
    /\ IF calc.doing = "giving" /\ store[calc.slot] # Absent
       THEN CalcSays(<<Packet("ACK", None), Packet("XDP", store[calc.slot])>>)
       ELSE UNCHANGED toHost
    /\ UNCHANGED calculator

\* Noise on the line: a packet with data arrives with a checksum that is wrong.
Damage ==
    /\ faults < MaxFaults
    /\ \/ /\ toCalc # <<>> /\ Head(toCalc).cmd \in WithData
          /\ toCalc' = [toCalc EXCEPT ![1].arg = Damaged]
          /\ UNCHANGED toHost
       \/ /\ toHost # <<>> /\ Heard.cmd \in WithData
          /\ toHost' = [toHost EXCEPT ![1].arg = Damaged]
          /\ UNCHANGED toCalc
    /\ faults' = faults + 1
    /\ UNCHANGED <<op, at, told, got, calculator, offered, ops, rej>>

-----------------------------------------------------------------------------
DbusBegin ==
    /\ \/ Begin("ready", Absent, Absent, "RDY")
       \/ \E s \in Slots, c \in Contents : Begin("send", s, c, "RTS")
       \/ \E s \in Slots : Begin("recv", s, Absent, "REQ")
    /\ UNCHANGED rej

DbusHost ==
    \/ SendRDY \/ RecvReady
    \/ SendRTS \/ RecvRTSAck \/ RecvSKP \/ SendACK \/ SendXDP \/ RecvXDPAck \/ SendEOT
    \/ SendREQ \/ RecvREQAck \/ RecvVAR \/ AckVAR \/ SendCTS \/ RecvCTSAck \/ RecvXDP \/ AckXDP
    \/ DbusGivesUp

DbusCalc ==
    \/ CalcOnRDY \/ CalcOnRTS \/ CalcOnACK \/ CalcOnXDP \/ CalcOnEOT \/ CalcOnREQ \/ CalcOnCTS
    \/ Damage
    \/ CalcStops /\ UNCHANGED rej

DbusNext == DbusBegin \/ DbusHost \/ DbusCalc
=============================================================================
